---------------------------- MODULE Spec2Model ----------------------------
(***************************************************************************)
(* A model of the Windows host layer of the emulator                       *)
(* (common/Windows/WinHostSys.cpp, here src/unnamed/part_002):             *)
(*   - the page-fault exception filter and the listener dispatch it drives *)
(*   - HostSys: reserve / commit / reset / map / unmap / protect           *)
(*   - the UWP registry of unwind handlers for generated code              *)
(* The file is compiled in two ways, with and without _UWP; the variable   *)
(* uwp is the build, chosen once in Init.                                  *)
(***************************************************************************)
EXTENDS Integers, Sequences, FiniteSets, TLC

(***************************************************************************)
(* Bounds of the model.                                                    *)
(***************************************************************************)
NPages == 2          \* pages of address space above the null page
PageSize == 2        \* address units per page (__pagesize, scaled down)

NHandlers == 2       \* blocks of unwind-handler storage callers can pass
MaxStart == 1        \* generated code starts at 0..MaxStart
MaxCodeSize == 2     \* generated code is 1..MaxCodeSize long

NListeners == 3      \* page-fault listeners that can be registered
MaxDepth == 2        \* nested exceptions on one thread

MaxArgs == 3         \* arguments on the command line after the program path
MaxPosts == 3        \* functions handed to the CPU thread

MaxWindows == 2      \* windows CreateWindowExW makes
MaxFuncs == 3        \* functions passed to ExecuteInMessageLoop
MaxQueue == 1        \* posted messages the system adds to

VARIABLES
    uwp,             \* TRUE: built with _UWP defined
    listeners,       \* Source_PageFault's listeners, in registration order
    deregistered,    \* the listeners whose DeregisterListener has completed
    m_handled,       \* Source_PageFault->WasHandled()
    PageFault_Mutex, \* owner ("none": free) and how many times the owner locked it
    stack,           \* per thread: the exception filters it is running, outermost first
    mem,             \* the platform's view of each page of the address space
    lastCall,        \* the last HostSys call: operation, arguments, what it returned
    s_handler_head,  \* first UnwindHandler of the chain, 0: nullptr
    s_handler_tail,  \* last UnwindHandler of the chain, 0: nullptr
    handlers,        \* the UnwindHandler storage blocks and their page protection
    regCall,         \* the last registry call: arguments and what it returned
    inst,            \* per registering thread: where it is in UWPInstallExceptionHandlerForJIT
    written,         \* the handlers whose code_base, code_end and next have been written
    writes,          \* the protections handler storage had when it was written to
    argv,            \* main's argv, the program path first
    arg_i,           \* ParseCommandLineOptions: i
    no_more_args,    \* ParseCommandLineOptions: no_more_args
    autoboot,        \* main's autoboot: None (null) or the boot parameters
    s_batch_mode,    \* NoGUIHost::InBatchMode()
    mainpc,          \* where main is
    g_nogui_window,  \* TRUE: the platform window object exists
    exit_code,       \* the status the process ended with, NotExited while it runs
    m_message_loop_running,       \* cleared by QuitMessageLoop
    signal_handler,               \* what std::signal has set for each signal
    graceful_shutdown_attempted,  \* SignalHandler's static flag
    s_running,                    \* the CPU thread is to keep running
    vmState,                      \* VMManager::GetState()
    cpu,                          \* where the CPU thread is
    s_cpu_thread_events,          \* the functions handed to the CPU thread, oldest first
    s_blocking_cpu_events_pending,  \* a u32
    s_cpu_thread_events_mutex,    \* the thread that holds it, "none": free
    posted,                       \* functions handed over so far
    waiting,                      \* per thread: the blocking call it waits in
    executed,                     \* the functions the CPU thread took up, in that order
    finished,                     \* the functions that have run to their end
    returned,                     \* the blocking calls that have returned
    exit_ways,                    \* how Host::RequestExit has been called so far
    stop_pc,                      \* where the call of StopCPUThread is
    m_hwnd,                       \* Win32NoGUIPlatform::m_hwnd, NULL: no window
    windows,                      \* the handles of the windows there are
    windows_made,                 \* how many windows CreateWindowExW has made
    msgq,                         \* the posted messages of the window thread, oldest first
    uipc,                         \* where the window thread is in RunMessageLoop
    uifunc,                       \* the function CreatePlatformWindow runs in, 0: none
    funcs,                        \* the functions passed to ExecuteInMessageLoop
    s_host_display,               \* TRUE: the display exists
    s_host_display_created,       \* the semaphore's count
    acquiring                     \* TRUE: AcquireHostDisplay waits for the semaphore

arenaVars == <<mem, lastCall>>
registryVars == <<s_handler_head, s_handler_tail, handlers, regCall>>
faultVars == <<listeners, deregistered, m_handled, PageFault_Mutex, stack>>
stepVars == <<inst, written, writes>>
parseVars == <<argv, arg_i, no_more_args, autoboot, s_batch_mode>>
mainVars == <<parseVars, mainpc, g_nogui_window, exit_code>>
sigVars == <<signal_handler, graceful_shutdown_attempted>>
cpuVars == <<s_running, vmState, cpu>>
queueVars == <<s_cpu_thread_events, s_blocking_cpu_events_pending, s_cpu_thread_events_mutex,
               posted, waiting>>
logVars == <<executed, finished, returned, exit_ways>>
hostVars == <<m_message_loop_running, sigVars, cpuVars, queueVars, logVars>>
windowVars == <<m_hwnd, windows, windows_made>>
displayVars == <<s_host_display, s_host_display_created, acquiring>>
loopVars == <<msgq, uipc, uifunc, funcs>>
winVars == <<windowVars, displayVars, loopVars, stop_pc>>

(***************************************************************************)
(* PageProtectionMode and the Windows protection constants.                *)
(***************************************************************************)
Modes == [r : BOOLEAN, w : BOOLEAN, x : BOOLEAN]

PAGE_NOACCESS == "PAGE_NOACCESS"
PAGE_READONLY == "PAGE_READONLY"
PAGE_READWRITE == "PAGE_READWRITE"
PAGE_EXECUTE_READ == "PAGE_EXECUTE_READ"
PAGE_EXECUTE_READWRITE == "PAGE_EXECUTE_READWRITE"

WinProtections ==
    {PAGE_NOACCESS, PAGE_READONLY, PAGE_READWRITE, PAGE_EXECUTE_READ, PAGE_EXECUTE_READWRITE}

\* The accesses a Windows protection constant allows.
Grants(prot) ==
    [r |-> prot \in {PAGE_READONLY, PAGE_READWRITE, PAGE_EXECUTE_READ, PAGE_EXECUTE_READWRITE},
     w |-> prot \in {PAGE_READWRITE, PAGE_EXECUTE_READWRITE},
     x |-> prot \in {PAGE_EXECUTE_READ, PAGE_EXECUTE_READWRITE}]

\* ConvertToWinApi with the execute branch taken on write alone (a mutant).
ConvertToWinApi_ExecOnWrite(mode) ==
    IF mode.x \/ mode.w
    THEN (IF mode.w THEN PAGE_EXECUTE_READWRITE ELSE PAGE_EXECUTE_READ)
    ELSE IF mode.r
    THEN PAGE_READONLY
    ELSE PAGE_NOACCESS

ConvertToWinApi(mode) ==
    IF mode.x
    THEN (IF mode.w THEN PAGE_EXECUTE_READWRITE ELSE PAGE_EXECUTE_READ)
    ELSE IF mode.r
    THEN (IF mode.w THEN PAGE_READWRITE ELSE PAGE_READONLY)
    ELSE PAGE_NOACCESS

\* PageProtectionMode(mode).Execute(false)
NoExecute(mode) == [mode EXCEPT !.x = FALSE]


(***************************************************************************)
(* The page-fault exception filter.  A thread that raises an exception     *)
(* runs the filter on its own stack: SysPageFaultExceptionFilter as a      *)
(* vectored handler (no _UWP) or UnwindExceptionHandler as the handler of  *)
(* generated code (_UWP), both around DoSysPageFaultExceptionFilter.       *)
(* Source_PageFault (common/PageFaultSource.h) is not part of the file:    *)
(* its listener list and Dispatch follow the specification.                *)
(***************************************************************************)
Threads == {"EE", "MTVU"}
ListenerIds == 1..NListeners

EXCEPTION_ACCESS_VIOLATION == "EXCEPTION_ACCESS_VIOLATION"
OTHER_EXCEPTION == "OTHER_EXCEPTION"
ExceptionCodes == {EXCEPTION_ACCESS_VIOLATION, OTHER_EXCEPTION}

EXCEPTION_CONTINUE_EXECUTION == "EXCEPTION_CONTINUE_EXECUTION"
EXCEPTION_CONTINUE_SEARCH == "EXCEPTION_CONTINUE_SEARCH"

Unlocked == [owner |-> "none", count |-> 0]

\* One run of the filter.  pc: where it is; snap, idx: the listeners Dispatch
\* walks and the one it is at; log: the listeners it has invoked, in order;
\* own: a listener of this run reported the fault handled; ret: what the
\* filter returned to the platform; n, invoked: how many listeners its
\* Dispatch had to walk and how many it invoked.  The faulting address is
\* not kept: what a listener answers for it is any of its two answers.
Frame(code) ==
    [pc |-> "filter", code |-> code, snap |-> <<>>, idx |-> 0,
     log |-> <<>>, own |-> FALSE, ret |-> "none", n |-> 0, invoked |-> 0]

\* A filter that has returned verdict: what the platform is left with.
Returned(f, verdict) ==
    [pc |-> "returned", code |-> f.code, snap |-> <<>>, idx |-> 0,
     log |-> <<>>, own |-> f.own, ret |-> verdict,
     n |-> Len(f.snap), invoked |-> Len(f.log)]

Top(t) == stack[t][Len(stack[t])]
Running(t) == stack[t] # <<>> /\ Top(t).pc \notin {"returned", "blocked"}
SetTop(t, f) == [stack EXCEPT ![t][Len(stack[t])] = f]
Range(seq) == {seq[i] : i \in 1..Len(seq)}

\* ~unique_lock by thread t.
Unlock(mtx, t) ==
    IF mtx.owner # t THEN mtx
    ELSE IF mtx.count = 1 THEN Unlocked
    ELSE [mtx EXCEPT !.count = mtx.count - 1]

\* The platform raises an exception on a thread that runs no filter.
RaiseException(t, code) ==
    /\ stack[t] = <<>>
    /\ stack' = [stack EXCEPT ![t] = <<Frame(code)>>]
    /\ UNCHANGED <<listeners, deregistered, m_handled, PageFault_Mutex>>

\* The top filter of t returns verdict to the platform; mtx is the mutex once
\* the filter has let go of it.  The outermost filter's verdict is what the
\* platform acts on.  The verdict of a nested filter is about the exception a
\* listener raised: on continue-execution the listener goes on; on
\* continue-search the platform searches the frames of the thread and the
\* __except of every enclosing filter takes the access violation, unwinds
\* its filter (unlocking) and returns continue-search in its turn.
FilterReturns(t, verdict, mtx) ==
    IF Len(stack[t]) = 1
    THEN /\ stack' = SetTop(t, Returned(Top(t), verdict))
         /\ PageFault_Mutex' = mtx
    ELSE IF verdict = EXCEPTION_CONTINUE_EXECUTION
    THEN /\ stack' = [stack EXCEPT ![t] = SubSeq(stack[t], 1, Len(stack[t]) - 1)]
         /\ PageFault_Mutex' = mtx
    ELSE /\ stack' = [stack EXCEPT ![t] =
                        <<Returned(stack[t][1], EXCEPTION_CONTINUE_SEARCH)>>]
         /\ PageFault_Mutex' = IF mtx.owner = t THEN Unlocked ELSE mtx

\* DoSysPageFaultExceptionFilter, the test of the exception code.
FilterCheckCode(t) ==
    /\ Running(t)
    /\ Top(t).pc = "filter"
    /\ IF Top(t).code # EXCEPTION_ACCESS_VIOLATION
       THEN FilterReturns(t, EXCEPTION_CONTINUE_SEARCH, PageFault_Mutex)
       ELSE /\ stack' = SetTop(t, [Top(t) EXCEPT !.pc = "lock"])
            /\ UNCHANGED PageFault_Mutex
    /\ UNCHANGED <<listeners, deregistered, m_handled>>

\* The filter going on to Dispatch without the lock (a mutant).
FilterLock_NoLock(t) ==
    /\ Running(t)
    /\ Top(t).pc = "lock"
    /\ stack' = SetTop(t, [Top(t) EXCEPT !.pc = "dispatch"])
    /\ UNCHANGED <<listeners, deregistered, m_handled, PageFault_Mutex>>

\* std::unique_lock lock(PageFault_Mutex).  A free mutex is taken; a mutex
\* another thread holds is waited for.  Locking a mutex the thread itself
\* holds is undefined: the thread blocks for ever, or the lock counts it.
FilterLock(t) ==
    /\ Running(t)
    /\ Top(t).pc = "lock"
    /\ \/ /\ PageFault_Mutex.owner = "none"
          /\ PageFault_Mutex' = [owner |-> t, count |-> 1]
          /\ stack' = SetTop(t, [Top(t) EXCEPT !.pc = "dispatch"])
       \/ /\ PageFault_Mutex.owner = t
          /\ PageFault_Mutex' = [PageFault_Mutex EXCEPT !.count = PageFault_Mutex.count + 1]
          /\ stack' = SetTop(t, [Top(t) EXCEPT !.pc = "dispatch"])
       \/ /\ PageFault_Mutex.owner = t
          /\ stack' = SetTop(t, [Top(t) EXCEPT !.pc = "blocked"])
          /\ UNCHANGED PageFault_Mutex
    /\ UNCHANGED <<listeners, deregistered, m_handled>>

\* Source_PageFault->Dispatch(PageFaultInfo(address)), its start: nothing is
\* handled yet and the listeners are walked in registration order.
DispatchBegin(t) ==
    /\ Running(t)
    /\ Top(t).pc = "dispatch"
    /\ m_handled' = FALSE
    /\ stack' = SetTop(t, [Top(t) EXCEPT !.snap = listeners,
                                         !.idx = IF listeners = <<>> THEN 0 ELSE 1,
                                         !.pc = IF listeners = <<>> THEN "verdict" ELSE "notify"])
    /\ UNCHANGED <<listeners, deregistered, PageFault_Mutex>>

\* Dispatch going on to the next listener after one that handled (a mutant).
DispatchNotify_NoStop(t, handled) ==
    LET f == Top(t)
    IN  /\ Running(t)
        /\ f.pc = "notify"
        /\ m_handled' = (handled \/ m_handled)
        /\ stack' = SetTop(t, [f EXCEPT !.log = Append(f.log, f.snap[f.idx]),
                                        !.own = handled \/ f.own,
                                        !.idx = IF f.idx = Len(f.snap) THEN f.idx ELSE f.idx + 1,
                                        !.pc = IF f.idx = Len(f.snap) THEN "verdict" ELSE "notify"])
        /\ UNCHANGED <<listeners, deregistered, PageFault_Mutex>>

\* Dispatch, one listener: it is called with the faulting address and answers
\* handled or not; Dispatch stops at the first that handled, or at the end.
DispatchNotify(t, handled) ==
    LET f == Top(t)
        last == handled \/ f.idx = Len(f.snap)
    IN  /\ Running(t)
        /\ f.pc = "notify"
        /\ m_handled' = handled
        /\ stack' = SetTop(t, [f EXCEPT !.log = Append(f.log, f.snap[f.idx]),
                                        !.own = handled,
                                        !.idx = IF last THEN f.idx ELSE f.idx + 1,
                                        !.pc = IF last THEN "verdict" ELSE "notify"])
        /\ UNCHANGED <<listeners, deregistered, PageFault_Mutex>>

\* The listener Dispatch is calling raises an access violation.  Without
\* _UWP the platform calls the vectored handler first, on the same thread:
\* another run of the filter, on top of the one that is dispatching.  With
\* _UWP the platform searches the frames, and the __except of
\* UnwindExceptionHandler takes it: the filter is unwound and returns
\* continue-search.
ListenerFaults(t) ==
    /\ Running(t)
    /\ Top(t).pc = "notify"
    /\ IF uwp
       THEN FilterReturns(t, EXCEPTION_CONTINUE_SEARCH, Unlock(PageFault_Mutex, t))
       ELSE /\ Len(stack[t]) < MaxDepth
            /\ stack' = [stack EXCEPT ![t] =
                           Append(stack[t], Frame(EXCEPTION_ACCESS_VIOLATION))]
            /\ UNCHANGED PageFault_Mutex
    /\ UNCHANGED <<listeners, deregistered, m_handled>>

\* The last line of the filter with the two results exchanged (a mutant).
FilterVerdict_Exchanged(t) ==
    /\ Running(t)
    /\ Top(t).pc = "verdict"
    /\ FilterReturns(t, IF m_handled THEN EXCEPTION_CONTINUE_SEARCH
                        ELSE EXCEPTION_CONTINUE_EXECUTION,
                     Unlock(PageFault_Mutex, t))
    /\ UNCHANGED <<listeners, deregistered, m_handled>>

\* return Source_PageFault->WasHandled() ? EXCEPTION_CONTINUE_EXECUTION
\*                                        : EXCEPTION_CONTINUE_SEARCH;
\* and the lock is let go of on the way out.
FilterVerdict(t) ==
    /\ Running(t)
    /\ Top(t).pc = "verdict"
    /\ FilterReturns(t, IF m_handled THEN EXCEPTION_CONTINUE_EXECUTION
                        ELSE EXCEPTION_CONTINUE_SEARCH,
                     Unlock(PageFault_Mutex, t))
    /\ UNCHANGED <<listeners, deregistered, m_handled>>

\* The platform acts on the verdict: the thread resumes, or the search for a
\* handler goes on elsewhere.
PlatformActs(t) ==
    /\ stack[t] # <<>>
    /\ Top(t).pc = "returned"
    /\ stack' = [stack EXCEPT ![t] = <<>>]
    /\ UNCHANGED <<listeners, deregistered, m_handled, PageFault_Mutex>>

\* RegisterListener: appends, under the dispatch lock.
RegisterListener(l) ==
    /\ PageFault_Mutex.owner = "none"
    /\ l \notin Range(listeners)
    /\ listeners' = Append(listeners, l)
    /\ deregistered' = deregistered \ {l}
    /\ UNCHANGED <<m_handled, PageFault_Mutex, stack>>

\* DeregisterListener: removes, under the dispatch lock.
DeregisterListener(l) ==
    /\ PageFault_Mutex.owner = "none"
    /\ l \in Range(listeners)
    /\ listeners' = SelectSeq(listeners, LAMBDA x : x # l)
    /\ deregistered' = deregistered \cup {l}
    /\ UNCHANGED <<m_handled, PageFault_Mutex, stack>>

(***************************************************************************)
(* The address space.  Address 0 is the null pointer; page 0 is never      *)
(* mapped.  Page p holds the addresses p*PageSize .. (p+1)*PageSize - 1.   *)
(***************************************************************************)
Pages == 1..NPages
MaxAddr == (NPages + 1) * PageSize - 1
\* The arguments callers pass: null, the first page, an address inside it and
\* the last page; no bytes, one byte, one page and the whole address space.
Bases == {0, PageSize, PageSize + 1, NPages * PageSize}
Sizes == {0, 1, PageSize, NPages * PageSize}

FreePage == [st |-> "free", prot |-> PAGE_NOACCESS, alloc |-> 0]

PageOf(addr) == addr \div PageSize
\* The pages the byte range [addr, addr+size) touches (size > 0).
PagesOf(addr, size) == PageOf(addr)..PageOf(addr + size - 1)

ERROR_SUCCESS == "ERROR_SUCCESS"
ERROR_INVALID_PARAMETER == "ERROR_INVALID_PARAMETER"
ERROR_INVALID_ADDRESS == "ERROR_INVALID_ADDRESS"
ERROR_ACCESS_DENIED == "ERROR_ACCESS_DENIED"
ERROR_COMMITMENT_MINIMUM == "ERROR_COMMITMENT_MINIMUM"
ERROR_NOT_ENOUGH_MEMORY == "ERROR_NOT_ENOUGH_MEMORY"
ERROR_OUTOFMEMORY == "ERROR_OUTOFMEMORY"

\* What the platform may answer to a well-formed allocation request.
AllocAnswers == {ERROR_SUCCESS, ERROR_COMMITMENT_MINIMUM, ERROR_NOT_ENOUGH_MEMORY, ERROR_OUTOFMEMORY}
\* What the platform may answer to a well-formed protection change.
ProtectAnswers == {ERROR_SUCCESS, ERROR_ACCESS_DENIED}

(***************************************************************************)
(* The platform calls the file makes, as functions of the page table m.    *)
(* answer is the platform's choice for a well-formed request; place is the *)
(* page it picks when no address is asked for.                             *)
(***************************************************************************)
Places(addr) == IF addr = 0 THEN Pages ELSE {1}

\* VirtualAlloc / VirtualAllocFromApp(addr, size, MEM_RESERVE and/or MEM_COMMIT, prot).
\* A request with MEM_RESERVE, or with a null address, makes a new region and
\* needs free pages; MEM_COMMIT alone at an address needs pages of one region.
\* The platform may refuse for lack of memory only what asks for memory: a
\* commit of pages that are all committed already just sets their protection.
\* Returns the base of the pages (0: failed) and the error code.
VirtualAlloc(m, addr, size, reserve, commit, prot, place, answer) ==
    LET n == (size + PageSize - 1) \div PageSize
        first == IF addr = 0 THEN place ELSE PageOf(addr)
        last == IF addr = 0 THEN place + n - 1 ELSE PageOf(addr + size - 1)
        fresh == addr = 0 \/ reserve
        wellFormed ==
            /\ size > 0
            /\ first >= 1
            /\ last <= NPages
            /\ IF fresh
               THEN \A p \in first..last : m[p].st = "free"
               ELSE \A p \in first..last : m[p].st # "free" /\ m[p].alloc = m[first].alloc
        charged == fresh \/ \E p \in first..last : m[p].st # "committed"
    IN  IF ~wellFormed
        THEN [addr |-> 0, mem |-> m,
              err |-> IF size = 0 THEN ERROR_INVALID_PARAMETER ELSE ERROR_INVALID_ADDRESS]
        ELSE IF charged /\ answer # ERROR_SUCCESS
        THEN [addr |-> 0, mem |-> m, err |-> answer]
        ELSE [addr |-> first * PageSize,
              mem |-> [p \in Pages |->
                        IF p \in first..last
                        THEN [st |-> IF commit THEN "committed"
                                     ELSE IF fresh THEN "reserved" ELSE m[p].st,
                              prot |-> IF commit THEN prot
                                       ELSE IF fresh THEN PAGE_NOACCESS ELSE m[p].prot,
                              alloc |-> IF fresh THEN first ELSE m[p].alloc]
                        ELSE m[p]],
              err |-> ERROR_SUCCESS]

\* VirtualProtect / VirtualProtectFromApp(addr, size, prot, &old): every page of
\* the range must be committed and of one region.
VirtualProtect(m, addr, size, prot, answer) ==
    LET first == PageOf(addr)
        last == PageOf(addr + size - 1)
        wellFormed ==
            /\ size > 0
            /\ first >= 1
            /\ last <= NPages
            /\ \A p \in first..last : m[p].st = "committed" /\ m[p].alloc = m[first].alloc
    IN  IF ~wellFormed
        THEN [ok |-> FALSE, mem |-> m,
              err |-> IF size = 0 THEN ERROR_INVALID_PARAMETER ELSE ERROR_INVALID_ADDRESS]
        ELSE IF answer # ERROR_SUCCESS
        THEN [ok |-> FALSE, mem |-> m, err |-> answer]
        ELSE [ok |-> TRUE,
              mem |-> [p \in Pages |-> IF p \in first..last
                                       THEN [m[p] EXCEPT !.prot = prot] ELSE m[p]],
              err |-> ERROR_SUCCESS]

\* VirtualFree(addr, size, MEM_DECOMMIT): the pages of the range go back to
\* reserved; size 0 means the whole region and then addr must be its base.
VirtualFreeDecommit(m, addr, size) ==
    LET first == PageOf(addr)
        last == IF size = 0 THEN first ELSE PageOf(addr + size - 1)
        wellFormed ==
            /\ first >= 1
            /\ last <= NPages
            /\ \A p \in first..last : m[p].st # "free" /\ m[p].alloc = m[first].alloc
            /\ size = 0 => addr = m[first].alloc * PageSize
        region == IF size = 0 THEN {p \in Pages : m[p].alloc = first} ELSE first..last
    IN  IF ~wellFormed
        THEN [ok |-> FALSE, mem |-> m, err |-> ERROR_INVALID_ADDRESS]
        ELSE [ok |-> TRUE,
              mem |-> [p \in Pages |-> IF p \in region
                                       THEN [m[p] EXCEPT !.st = "reserved", !.prot = PAGE_NOACCESS]
                                       ELSE m[p]],
              err |-> ERROR_SUCCESS]

\* VirtualFree(addr, size, MEM_RELEASE): size must be 0 and addr the base the
\* region was reserved at; the whole region is freed.
VirtualFreeRelease(m, addr, size) ==
    LET first == PageOf(addr)
        wellFormed ==
            /\ size = 0
            /\ first >= 1
            /\ first <= NPages
            /\ addr = first * PageSize
            /\ m[first].st # "free"
            /\ m[first].alloc = first
    IN  IF ~wellFormed
        THEN [ok |-> FALSE, mem |-> m,
              err |-> IF size # 0 THEN ERROR_INVALID_PARAMETER ELSE ERROR_INVALID_ADDRESS]
        ELSE [ok |-> TRUE,
              mem |-> [p \in Pages |-> IF m[p].alloc = first THEN FreePage ELSE m[p]],
              err |-> ERROR_SUCCESS]

(***************************************************************************)
(* HostSys.  Each action is one call; lastCall records the arguments and   *)
(* what the caller got back (ok / addr), the error code the call read with *)
(* GetLastError (err) and how many times it slept; attempts: how many      *)
(* times it asked the platform to commit; failed: a platform call of it    *)
(* failed.  A void function gives its caller nothing: ok is TRUE whatever  *)
(* happened inside.                                                        *)
(***************************************************************************)
NoMode == [r |-> FALSE, w |-> FALSE, x |-> FALSE]

Call(op, base, size, mode, ok, addr, err, slept) ==
    [op |-> op, base |-> base, size |-> size, mode |-> mode,
     ok |-> ok, addr |-> addr, err |-> err, slept |-> slept,
     attempts |-> 0, failed |-> FALSE]

\* The call c, having made attempts commit requests, a platform call failing or not.
Platform(c, attempts, failed) == [c EXCEPT !.attempts = attempts, !.failed = failed]

NoCall == Call("none", 0, 0, NoMode, FALSE, 0, ERROR_SUCCESS, 0)

\* void* HostSys::MmapReservePtr(void* base, size_t size), and MmapReserve.
MmapReservePtr(base, size) ==
    \E place \in Places(base), answer \in {ERROR_SUCCESS, ERROR_NOT_ENOUGH_MEMORY} :
        LET a == VirtualAlloc(mem, base, size, TRUE, FALSE, PAGE_NOACCESS, place, answer)
        IN  /\ mem' = a.mem
            /\ lastCall' = Platform(Call("MmapReserve", base, size, NoMode, a.addr # 0, a.addr,
                                          ERROR_SUCCESS, 0), 0, a.addr = 0)

\* The tail of MmapCommitPtr reporting success after the pause (a mutant).
CommitOutcome_Swallowed(base, size, mode, result, errcode, m) ==
    /\ mem' = m
    /\ lastCall' =
         IF result
         THEN Platform(Call("MmapCommit", base, size, mode, TRUE, 0, ERROR_SUCCESS, 0), 1, FALSE)
         ELSE IF errcode = ERROR_COMMITMENT_MINIMUM
         THEN Platform(Call("MmapCommit", base, size, mode, TRUE, 0, errcode, 1), 1, TRUE)
         ELSE Platform(Call("MmapCommit", base, size, mode, FALSE, 0, errcode, 0), 1, TRUE)

\* The tail of MmapCommitPtr: what it does with the result of the commit.
\* result: the commit succeeded; errcode: GetLastError() when it did not.
CommitOutcome(base, size, mode, result, errcode, m) ==
    /\ mem' = m
    /\ lastCall' =
         IF result
         THEN Platform(Call("MmapCommit", base, size, mode, TRUE, 0, ERROR_SUCCESS, 0), 1, FALSE)
         ELSE IF errcode = ERROR_COMMITMENT_MINIMUM
         THEN Platform(Call("MmapCommit", base, size, mode, FALSE, 0, errcode, 1), 1, TRUE)
         ELSE Platform(Call("MmapCommit", base, size, mode, FALSE, 0, errcode, 0), 1, TRUE)

\* MmapCommitPtr built without _UWP: one VirtualAlloc(MEM_COMMIT) with the
\* protection ConvertToWinApi gives for mode.
MmapCommitPtrDirect(base, size, mode) ==
    \E place \in Places(base), answer \in AllocAnswers :
        LET a == VirtualAlloc(mem, base, size, FALSE, TRUE, ConvertToWinApi(mode), place, answer)
        IN  CommitOutcome(base, size, mode, a.addr # 0, a.err, a.mem)

\* MmapCommitPtr built with _UWP whose release after a refused reprotect
\* passes the size 0 (a mutant).
MmapCommitPtrUWP_Releases(base, size, mode) ==
    \E place \in Places(base), answer \in AllocAnswers,
       panswer \in (IF mode.x THEN ProtectAnswers ELSE {ERROR_SUCCESS}) :
        LET a == VirtualAlloc(mem, base, size, FALSE, TRUE,
                              ConvertToWinApi(NoExecute(mode)), place, answer)
            pr == VirtualProtect(a.mem, base, size, PAGE_EXECUTE_READWRITE, panswer)
            fr == VirtualFreeRelease(a.mem, base, 0)
        IN  IF a.addr # 0 /\ mode.x
            THEN IF pr.ok
                 THEN CommitOutcome(base, size, mode, TRUE, ERROR_SUCCESS, pr.mem)
                 ELSE CommitOutcome(base, size, mode, FALSE,
                                    IF fr.ok THEN pr.err ELSE fr.err, fr.mem)
            ELSE CommitOutcome(base, size, mode, a.addr # 0, a.err, a.mem)

\* MmapCommitPtr built with _UWP: commit without execute, then, for an
\* executable mode, reprotect to PAGE_EXECUTE_READWRITE; when that fails,
\* VirtualFree(base, size, MEM_RELEASE) and report failure.
MmapCommitPtrUWP(base, size, mode) ==
    \E place \in Places(base), answer \in AllocAnswers,
       panswer \in (IF mode.x THEN ProtectAnswers ELSE {ERROR_SUCCESS}) :
        LET a == VirtualAlloc(mem, base, size, FALSE, TRUE,
                              ConvertToWinApi(NoExecute(mode)), place, answer)
            pr == VirtualProtect(a.mem, base, size, PAGE_EXECUTE_READWRITE, panswer)
            fr == VirtualFreeRelease(a.mem, base, size)
        IN  IF a.addr # 0 /\ mode.x
            THEN IF pr.ok
                 THEN CommitOutcome(base, size, mode, TRUE, ERROR_SUCCESS, pr.mem)
                 ELSE CommitOutcome(base, size, mode, FALSE,
                                    IF fr.ok THEN pr.err ELSE fr.err, fr.mem)
            ELSE CommitOutcome(base, size, mode, a.addr # 0, a.err, a.mem)

\* bool HostSys::MmapCommitPtr(void* base, size_t size, const PageProtectionMode& mode),
\* and MmapCommit.
MmapCommitPtr(base, size, mode) ==
    IF uwp THEN MmapCommitPtrUWP(base, size, mode) ELSE MmapCommitPtrDirect(base, size, mode)

\* void HostSys::MmapResetPtr(void* base, size_t size), and MmapReset.
MmapResetPtr(base, size) ==
    LET f == VirtualFreeDecommit(mem, base, size)
    IN  /\ mem' = f.mem
        /\ lastCall' = Platform(Call("MmapReset", base, size, NoMode, TRUE, 0, ERROR_SUCCESS, 0),
                                 0, ~f.ok)

\* HostSys::Mmap built without _UWP: reserve and commit, execute-read-write.
MmapDirect(base, size) ==
    \E place \in Places(base), answer \in AllocAnswers :
        LET a == VirtualAlloc(mem, base, size, TRUE, TRUE, PAGE_EXECUTE_READWRITE, place, answer)
        IN  /\ mem' = a.mem
            /\ lastCall' = Platform(Call("Mmap", base, size, NoMode, a.addr # 0, a.addr,
                                          ERROR_SUCCESS, 0), 1, a.addr = 0)

\* HostSys::Mmap built with _UWP: commit read-write, reprotect to
\* execute-read-write; when that fails, VirtualFree(result, size, MEM_RELEASE)
\* and return null.
MmapUWP(base, size) ==
    \E place \in Places(base), answer \in AllocAnswers, panswer \in ProtectAnswers :
        LET a == VirtualAlloc(mem, base, size, FALSE, TRUE, PAGE_READWRITE, place, answer)
            pr == VirtualProtect(a.mem, a.addr, size, PAGE_EXECUTE_READWRITE, panswer)
            fr == VirtualFreeRelease(a.mem, a.addr, size)
        IN  IF a.addr # 0
            THEN IF pr.ok
                 THEN /\ mem' = pr.mem
                      /\ lastCall' = Platform(Call("Mmap", base, size, NoMode, TRUE, a.addr,
                                                    ERROR_SUCCESS, 0), 1, FALSE)
                 ELSE /\ mem' = fr.mem
                      /\ lastCall' = Platform(Call("Mmap", base, size, NoMode, FALSE, 0,
                                                    ERROR_SUCCESS, 0), 1, TRUE)
            ELSE /\ mem' = a.mem
                 /\ lastCall' = Platform(Call("Mmap", base, size, NoMode, FALSE, 0,
                                               ERROR_SUCCESS, 0), 1, TRUE)

\* void* HostSys::Mmap(uptr base, size_t size)
Mmap(base, size) ==
    IF uwp THEN MmapUWP(base, size) ELSE MmapDirect(base, size)

\* Munmap handing its size on to VirtualFree (a mutant).
Munmap_PassesSize(base, size) ==
    LET f == VirtualFreeRelease(mem, base, size)
    IN  /\ mem' = IF base = 0 THEN mem ELSE f.mem
        /\ lastCall' = Platform(Call("Munmap", base, 0, NoMode, TRUE, 0, ERROR_SUCCESS, 0),
                                 0, base # 0 /\ ~f.ok)

\* void HostSys::Munmap(uptr base, size_t size): nothing for a null base, else
\* VirtualFree(base, 0, MEM_RELEASE).
Munmap(base, size) ==
    LET f == VirtualFreeRelease(mem, base, 0)
    IN  /\ mem' = IF base = 0 THEN mem ELSE f.mem
        /\ lastCall' = Platform(Call("Munmap", base, 0, NoMode, TRUE, 0, ERROR_SUCCESS, 0),
                                 0, base # 0 /\ ~f.ok)

\* void HostSys::MemProtect(void* baseaddr, size_t size, const PageProtectionMode& mode):
\* one VirtualProtect; a failure is reported by pxFailDev only and nothing is
\* returned to the caller.
MemProtect(base, size, mode) ==
    \E panswer \in ProtectAnswers :
        LET pr == VirtualProtect(mem, base, size, ConvertToWinApi(mode), panswer)
        IN  /\ mem' = pr.mem
            /\ lastCall' = Platform(Call("MemProtect", base, size, mode, TRUE, 0,
                                          ERROR_SUCCESS, 0), 0, ~pr.ok)

(***************************************************************************)
(* The registry of unwind handlers (built with _UWP only).  A block of     *)
(* handler storage is named 1..NHandlers; it lies in committed pages of    *)
(* the code buffer, which the platform hands out zeroed and which Mmap     *)
(* leaves execute-read-write.  The model is the x64 build (_M_AMD64).      *)
(***************************************************************************)
Handlers == 1..NHandlers
CodeStarts == 0..MaxStart
CodeSizes == 1..MaxCodeSize
ControlPcs == 0..(MaxStart + MaxCodeSize)

FreshHandler == [next |-> 0, code_base |-> 0, code_end |-> 0, prot |-> PAGE_EXECUTE_READWRITE]

\* The handlers met walking next_unwind_handler from h, at most fuel of them.
RECURSIVE ChainFrom(_, _, _)
ChainFrom(hs, h, fuel) ==
    IF h = 0 \/ fuel = 0 THEN <<>> ELSE <<h>> \o ChainFrom(hs, hs[h].next, fuel - 1)

\* The chain from s_handler_head, in order.
Chain == ChainFrom(handlers, s_handler_head, NHandlers)

\* h is pointed to by the head or by another block.
Linked(h) == h = s_handler_head \/ \E g \in Handlers : handlers[g].next = h

\* The walk of GetRuntimeFunctionCallback taking code_end for part of the
\* range (a mutant).
RECURSIVE FirstMatch_Inclusive(_, _, _, _)
FirstMatch_Inclusive(hs, h, pc, fuel) ==
    IF h = 0 \/ fuel = 0
    THEN 0
    ELSE IF pc >= hs[h].code_base /\ pc <= hs[h].code_end
    THEN h
    ELSE FirstMatch_Inclusive(hs, hs[h].next, pc, fuel - 1)

\* GetRuntimeFunctionCallback(ControlPc, Context): the first handler of the
\* chain whose [code_base, code_end) holds ControlPc; 0: nullptr.
RECURSIVE FirstMatch(_, _, _, _)
FirstMatch(hs, h, pc, fuel) ==
    IF h = 0 \/ fuel = 0
    THEN 0
    ELSE IF pc >= hs[h].code_base /\ pc < hs[h].code_end
    THEN h
    ELSE FirstMatch(hs, hs[h].next, pc, fuel - 1)

GetRuntimeFunctionCallback(pc) == FirstMatch(handlers, s_handler_head, pc, NHandlers)

RegCall(op, start, size, uh, ok, found) ==
    [op |-> op, start |-> start, size |-> size, uh |-> uh, ok |-> ok, found |-> found]

NoRegCall == RegCall("none", 0, 0, 0, FALSE, 0)

\* What UWPInstallExceptionHandlerForJIT leaves behind and returns.
InstallOutcome(start, size, uh, ok, head, tail, hs) ==
    /\ s_handler_head' = head
    /\ s_handler_tail' = tail
    /\ handlers' = hs
    /\ regCall' = RegCall("Install", start, size, uh, ok, 0)

\* bool UWPInstallExceptionHandlerForJIT(void* start_pc, size_t code_size, void* unwind_handler).
\* rtl: RtlInstallFunctionTableCallback succeeded; p1..p4: the answers to the
\* four VirtualProtectFromApp calls, in the order of the source.
UWPInstallExceptionHandlerForJIT(start, size, uh, rtl, p1, p2, p3, p4) ==
    LET \* protect it to RW
        h1 == [handlers EXCEPT ![uh].prot = PAGE_READWRITE]
        \* add it to the handler chain
        t == s_handler_tail
        h2 == [h1 EXCEPT ![t].prot = PAGE_READWRITE]
        h3 == [h2 EXCEPT ![t].next = uh]
        h4 == [h3 EXCEPT ![t].prot = PAGE_EXECUTE_READ]
        hl == IF t = 0 THEN h1 ELSE h4
        head == IF t = 0 THEN uh ELSE s_handler_head
        \* code_base, code_end, next_unwind_handler, runtime_function, unwind_info
        h5 == [hl EXCEPT ![uh].code_base = start,
                         ![uh].code_end = start + size,
                         ![uh].next = 0]
        h6 == [h5 EXCEPT ![uh].prot = PAGE_EXECUTE_READ]
    IN  IF ~rtl
        THEN InstallOutcome(start, size, uh, FALSE, s_handler_head, s_handler_tail, handlers)
        ELSE IF ~p1
        THEN InstallOutcome(start, size, uh, FALSE, s_handler_head, s_handler_tail, handlers)
        ELSE IF t # 0 /\ ~p2
        THEN InstallOutcome(start, size, uh, FALSE, s_handler_head, s_handler_tail, h1)
        ELSE IF t # 0 /\ ~p3
        THEN InstallOutcome(start, size, uh, FALSE, s_handler_head, s_handler_tail, h3)
        ELSE IF ~p4
        THEN InstallOutcome(start, size, uh, FALSE, head, uh, h5)
        ELSE InstallOutcome(start, size, uh, TRUE, head, uh, h6)

\* The platform's unwinder asks for the function table entry of ControlPc
\* (kept in start); found: the handler whose runtime_function it got.
Lookup(pc) ==
    /\ regCall' = RegCall("Lookup", pc, 0, 0, TRUE, GetRuntimeFunctionCallback(pc))
    /\ UNCHANGED <<s_handler_head, s_handler_tail, handlers>>

\* The caller reads what the registry call returned.
RegReturned ==
    /\ regCall # NoRegCall
    /\ regCall' = NoRegCall
    /\ UNCHANGED <<s_handler_head, s_handler_tail, handlers>>

RegIdle == regCall = NoRegCall

(***************************************************************************)
(* UWPInstallExceptionHandlerForJIT statement by statement.  The function  *)
(* takes no lock and s_handler_head, s_handler_tail and the handlers are   *)
(* plain memory: a thread that registers, another one that registers and   *)
(* the unwinder's lookup read and write them one access after the other.   *)
(* pc names the statement a thread is at; prev is the tail it linked       *)
(* behind.  A write to storage that is not writable is an access           *)
(* violation: the thread does not get past it.                             *)
(***************************************************************************)
Installers == {"I1", "I2"}

NotInstalling == [pc |-> "idle", start |-> 0, size |-> 0, uh |-> 0, prev |-> 0, ok |-> FALSE]

Writable(prot) == Grants(prot).w

At(i, pc) == inst[i].pc = pc
Goto(i, pc) == inst' = [inst EXCEPT ![i].pc = pc]
\* return ok;
Return(i, ok) == inst' = [inst EXCEPT ![i].pc = "done", ![i].ok = ok]

\* The call, and RtlInstallFunctionTableCallback (rtl: it succeeded).  Every
\* code buffer brings its own block of handler storage.
InstallCall(i, start, size, uh, rtl) ==
    /\ At(i, "idle")
    /\ ~Linked(uh)
    /\ \A j \in Installers : inst[j].uh # uh
    /\ inst' = [inst EXCEPT ![i] =
                  [pc |-> IF rtl THEN "rw_uh" ELSE "done", start |-> start, size |-> size,
                   uh |-> uh, prev |-> 0, ok |-> FALSE]]
    /\ UNCHANGED <<s_handler_head, s_handler_tail, handlers, regCall, written, writes>>

\* VirtualProtectFromApp(uh, .., PAGE_READWRITE, ..)
ProtectUhRW(i, p) ==
    /\ At(i, "rw_uh")
    /\ IF p
       THEN /\ handlers' = [handlers EXCEPT ![inst[i].uh].prot = PAGE_READWRITE]
            /\ Goto(i, "test_tail")
       ELSE /\ Return(i, FALSE)
            /\ UNCHANGED handlers
    /\ UNCHANGED <<s_handler_head, s_handler_tail, regCall, written, writes>>

\* if (!s_handler_tail)
TestTail(i) ==
    /\ At(i, "test_tail")
    /\ Goto(i, IF s_handler_tail = 0 THEN "set_head" ELSE "rw_tail")
    /\ UNCHANGED <<s_handler_head, s_handler_tail, handlers, regCall, written, writes>>

\* s_handler_head = uh; s_handler_tail = uh;
SetHead(i) ==
    /\ At(i, "set_head")
    /\ s_handler_head' = inst[i].uh
    /\ s_handler_tail' = inst[i].uh
    /\ Goto(i, "fill")
    /\ UNCHANGED <<handlers, regCall, written, writes>>

\* The step for the previous tail left out (a mutant).
ProtectTailRW_Skipped(i, p) ==
    /\ At(i, "rw_tail")
    /\ inst' = [inst EXCEPT ![i].pc = "link", ![i].prev = s_handler_tail]
    /\ UNCHANGED <<s_handler_head, s_handler_tail, handlers, regCall, written, writes>>

\* VirtualProtectFromApp(s_handler_tail, .., PAGE_READWRITE, ..)
ProtectTailRW(i, p) ==
    /\ At(i, "rw_tail")
    /\ IF p
       THEN /\ handlers' = [handlers EXCEPT ![s_handler_tail].prot = PAGE_READWRITE]
            /\ inst' = [inst EXCEPT ![i].pc = "link", ![i].prev = s_handler_tail]
       ELSE /\ Return(i, FALSE)
            /\ UNCHANGED handlers
    /\ UNCHANGED <<s_handler_head, s_handler_tail, regCall, written, writes>>

\* s_handler_tail->next_unwind_handler = uh;
Link(i) ==
    /\ At(i, "link")
    /\ writes' = writes \cup {handlers[s_handler_tail].prot}
    /\ IF Writable(handlers[s_handler_tail].prot)
       THEN /\ handlers' = [handlers EXCEPT ![s_handler_tail].next = inst[i].uh]
            /\ Goto(i, "rx_tail")
       ELSE /\ Goto(i, "fault")
            /\ UNCHANGED handlers
    /\ UNCHANGED <<s_handler_head, s_handler_tail, regCall, written>>

\* VirtualProtectFromApp(s_handler_tail, .., PAGE_EXECUTE_READ, ..)
ProtectTailRX(i, p) ==
    /\ At(i, "rx_tail")
    /\ IF p
       THEN /\ handlers' = [handlers EXCEPT ![s_handler_tail].prot = PAGE_EXECUTE_READ]
            /\ Goto(i, "set_tail")
       ELSE /\ Return(i, FALSE)
            /\ UNCHANGED handlers
    /\ UNCHANGED <<s_handler_head, s_handler_tail, regCall, written, writes>>

\* s_handler_tail = uh;
SetTail(i) ==
    /\ At(i, "set_tail")
    /\ s_handler_tail' = inst[i].uh
    /\ Goto(i, "fill")
    /\ UNCHANGED <<s_handler_head, handlers, regCall, written, writes>>

\* uh->code_base = ..; uh->code_end = ..; uh->next_unwind_handler = nullptr;
\* and runtime_function, unwind_info, exception_handler_code.
Fill(i) ==
    LET uh == inst[i].uh
    IN  /\ At(i, "fill")
        /\ writes' = writes \cup {handlers[uh].prot}
        /\ IF Writable(handlers[uh].prot)
           THEN /\ handlers' = [handlers EXCEPT ![uh].code_base = inst[i].start,
                                                ![uh].code_end = inst[i].start + inst[i].size,
                                                ![uh].next = 0]
                /\ written' = written \cup {uh}
                /\ Goto(i, "rx_uh")
           ELSE /\ Goto(i, "fault")
                /\ UNCHANGED <<handlers, written>>
        /\ UNCHANGED <<s_handler_head, s_handler_tail, regCall>>

\* VirtualProtectFromApp(uh, .., PAGE_EXECUTE_READ, ..) and the return.
ProtectUhRX(i, p) ==
    /\ At(i, "rx_uh")
    /\ IF p
       THEN /\ handlers' = [handlers EXCEPT ![inst[i].uh].prot = PAGE_EXECUTE_READ]
            /\ Return(i, TRUE)
       ELSE /\ Return(i, FALSE)
            /\ UNCHANGED handlers
    /\ UNCHANGED <<s_handler_head, s_handler_tail, regCall, written, writes>>

\* The caller has the result; the thread may register another buffer.
InstallReturned(i) ==
    /\ At(i, "done")
    /\ inst' = [inst EXCEPT ![i] = NotInstalling]
    /\ UNCHANGED <<s_handler_head, s_handler_tail, handlers, regCall, written, writes>>

\* No registration is under way.
NoneInstalling == \A i \in Installers : inst[i].pc \in {"idle", "fault"}

\* One statement of a registration other than the call itself.
InstallStep(i) ==
    \/ \E p \in BOOLEAN : ProtectUhRW(i, p)
    \/ TestTail(i)
    \/ SetHead(i)
    \/ \E p \in BOOLEAN : ProtectTailRW(i, p)
    \/ Link(i)
    \/ \E p \in BOOLEAN : ProtectTailRX(i, p)
    \/ SetTail(i)
    \/ Fill(i)
    \/ \E p \in BOOLEAN : ProtectUhRX(i, p)
    \/ InstallReturned(i)

(***************************************************************************)
(* The command line (pcsx2-nogui/Main.cpp).  A string is a TLA+ string:   *)
(* strcmp is equality, argv[i][0] is the first character, += is \o.       *)
(* argv[k] of the code is argv[k + 1] here, sequences starting at 1.       *)
(* Arguments are not empty.                                                *)
(***************************************************************************)
ProgramPath == "pcsx2"
Tokens ==
    {"-help", "-version", "-batch", "-fastboot", "-slowboot", "-state", "-statefile",
     "-elf", "-disc", "-bios", "-fullscreen", "-nofullscreen", "--", "-x", "a", "2"}
CommandLines == UNION {[1..n -> Tokens] : n \in 0..MaxArgs}

EXIT_SUCCESS == 0
EXIT_FAILURE == 1
NotExited == -1

\* A std::optional or a shared_ptr is the empty sequence or a sequence of one value.
None == <<>>
Some(v) == <<v>>

argc == Len(argv)
Arg(k) == argv[k + 1]

\* A value-initialised VMBootParameters (std::make_shared<VMBootParameters>()).
NewBootParameters ==
    [filename |-> "", elf_override |-> "", save_state |-> "", source_type |-> None,
     state_index |-> None, fast_boot |-> None, fullscreen |-> None]

\* AutoBoot(autoboot): the parameters autoboot points to, made if it was null.
AutoBoot(ab) == IF ab = None THEN NewBootParameters ELSE ab[1]

\* std::atoi on a string without leading white space: an optional sign, then
\* the digits up to the first character that is none.
DigitValue(c) ==
    CASE c = "0" -> 0 [] c = "1" -> 1 [] c = "2" -> 2 [] c = "3" -> 3 [] c = "4" -> 4
      [] c = "5" -> 5 [] c = "6" -> 6 [] c = "7" -> 7 [] c = "8" -> 8 [] c = "9" -> 9
      [] OTHER -> -1

RECURSIVE AtoiDigits(_, _, _)
AtoiDigits(s, k, acc) ==
    IF k > Len(s) \/ DigitValue(SubSeq(s, k, k)) < 0
    THEN acc
    ELSE AtoiDigits(s, k + 1, acc * 10 + DigitValue(SubSeq(s, k, k)))

Atoi(s) ==
    IF Len(s) > 0 /\ SubSeq(s, 1, 1) = "-" THEN 0 - AtoiDigits(s, 2, 0)
    ELSE IF Len(s) > 0 /\ SubSeq(s, 1, 1) = "+" THEN AtoiDigits(s, 2, 0)
    ELSE AtoiDigits(s, 1, 0)

\* The filename with no space put between its parts (a mutant).
AppendFilename_NoSpace(filename, arg) == filename \o arg

\* if (!filename.empty()) filename += ' ';  filename += argv[i];
AppendFilename(filename, arg) ==
    (IF filename # "" THEN filename \o " " ELSE filename) \o arg

\* No argument is taken for an unknown parameter (a mutant).
UnknownParameter_Never(arg) == FALSE

\* argv[i][0] == '-'
UnknownParameter(arg) == SubSeq(arg, 1, 1) = "-"

\* What one pass through the body of the for loop does with argv[i]: whether
\* the function goes on (ret "continue") or returns false, how far i has
\* moved when the i++ of the loop is done, and what it leaves in
\* no_more_args, autoboot and s_batch_mode.
ParseStep(k, nma, ab, batch) ==
    LET arg == Arg(k)
        CHECK_ARG(str) == arg = str
        CHECK_ARG_PARAM(str) == arg = str /\ (k + 1) < argc
        A == AutoBoot(ab)
        Out(ret, k2, nma2, ab2, batch2) ==
            [ret |-> ret, i |-> k2, no_more_args |-> nma2, autoboot |-> ab2,
             batch |-> batch2]
        Continue(k2, ab2) == Out("continue", k2, nma, ab2, batch)
        False == Out("false", k, nma, ab, batch)
        Filename == Continue(k + 1, Some([A EXCEPT !.filename = AppendFilename(@, arg)]))
    IN  IF nma THEN Filename
        ELSE IF CHECK_ARG("-help") THEN False
        ELSE IF CHECK_ARG("-version") THEN False
        ELSE IF CHECK_ARG("-batch") THEN Out("continue", k + 1, nma, ab, TRUE)
        ELSE IF CHECK_ARG("-fastboot")
        THEN Continue(k + 1, Some([A EXCEPT !.fast_boot = Some(TRUE)]))
        ELSE IF CHECK_ARG("-slowboot")
        THEN Continue(k + 1, Some([A EXCEPT !.fast_boot = Some(FALSE)]))
        ELSE IF CHECK_ARG_PARAM("-state")
        THEN Continue(k + 2, Some([A EXCEPT !.state_index = Some(Atoi(Arg(k + 1)))]))
        ELSE IF CHECK_ARG_PARAM("-statefile")
        THEN Continue(k + 2, Some([A EXCEPT !.save_state = Arg(k + 1)]))
        ELSE IF CHECK_ARG_PARAM("-elf")
        THEN Continue(k + 2, Some([A EXCEPT !.elf_override = Arg(k + 1)]))
        ELSE IF CHECK_ARG_PARAM("-disc")
        THEN Continue(k + 2, Some([A EXCEPT !.source_type = Some("Disc"),
                                            !.filename = Arg(k + 1)]))
        ELSE IF CHECK_ARG("-bios")
        THEN Continue(k + 1, Some([A EXCEPT !.source_type = Some("NoDisc")]))
        ELSE IF CHECK_ARG("-fullscreen")
        THEN Continue(k + 1, Some([A EXCEPT !.fullscreen = Some(TRUE)]))
        ELSE IF CHECK_ARG("-nofullscreen")
        THEN Continue(k + 1, Some([A EXCEPT !.fullscreen = Some(FALSE)]))
        ELSE IF CHECK_ARG("--") THEN Out("continue", k + 1, TRUE, ab, batch)
        ELSE IF UnknownParameter(arg) THEN False
        ELSE Filename

\* The checks after the loop with autoboot kept whatever it holds (a mutant).
CheckAutoboot_Kept(ab) == ab

\* if (autoboot && !source_type.has_value() && filename.empty() &&
\*     elf_override.empty()) autoboot.reset();
CheckAutoboot(ab) ==
    IF ab # None /\ ab[1].source_type = None /\ ab[1].filename = ""
       /\ ab[1].elf_override = ""
    THEN None
    ELSE ab

\* if (NoGUIHost::InBatchMode() && !autoboot) NoGUIHost::SetBatchMode(false);
CheckBatchMode(batch, ab) == IF batch /\ ab = None THEN FALSE ELSE batch

\* wWinMain: the program path first, then the arguments of the command line;
\* main: no boot parameters yet; ParseCommandLineOptions up to its loop.
MainStart ==
    /\ mainpc = "notstarted"
    /\ \E args \in CommandLines : argv' = <<ProgramPath>> \o args
    /\ arg_i' = 1
    /\ no_more_args' = FALSE
    /\ autoboot' = None
    /\ mainpc' = "parse"
    /\ UNCHANGED <<s_batch_mode, g_nogui_window, exit_code, hostVars>>

\* One pass through the loop of ParseCommandLineOptions.  SetBatchMode(true)
\* also refreshes the game list, which is no state of this model.
ParseArg ==
    /\ mainpc = "parse"
    /\ arg_i < argc
    /\ LET out == ParseStep(arg_i, no_more_args, autoboot, s_batch_mode)
       IN  /\ arg_i' = out.i
           /\ no_more_args' = out.no_more_args
           /\ autoboot' = out.autoboot
           /\ s_batch_mode' = out.batch
           /\ mainpc' = IF out.ret = "false" THEN "parsed_false" ELSE "parse"
    /\ UNCHANGED <<argv, g_nogui_window, exit_code, hostVars>>

\* ParseCommandLineOptions after its loop: it returns true.
ParseFinish ==
    /\ mainpc = "parse"
    /\ arg_i >= argc
    /\ autoboot' = CheckAutoboot(autoboot)
    /\ s_batch_mode' = CheckBatchMode(s_batch_mode, CheckAutoboot(autoboot))
    /\ mainpc' = "parsed_true"
    /\ UNCHANGED <<argv, arg_i, no_more_args, g_nogui_window, exit_code, hostVars>>

\* main: if (!ParseCommandLineOptions(...)) return EXIT_FAILURE;
MainParseFailed ==
    /\ mainpc = "parsed_false"
    /\ mainpc' = "exited"
    /\ exit_code' = EXIT_FAILURE
    /\ UNCHANGED <<parseVars, g_nogui_window, hostVars>>

\* main: g_nogui_window = CreateWin32Platform(), whose constructor sets
\* m_message_loop_running; null: return EXIT_FAILURE.
MainCreatePlatform(created) ==
    /\ mainpc = "parsed_true"
    /\ g_nogui_window' = created
    /\ m_message_loop_running' = created
    /\ mainpc' = IF created THEN "initialize" ELSE "exited"
    /\ exit_code' = IF created THEN exit_code ELSE EXIT_FAILURE
    /\ UNCHANGED <<parseVars, sigVars, cpuVars, queueVars, logVars>>

(***************************************************************************)
(* The host (pcsx2-nogui/NoGUIHost.cpp): the CPU thread, the queue of      *)
(* functions other threads hand to it, exit requests and signals.          *)
(* VMManager is not part of the files: its state is what                   *)
(* CPUThreadMainLoop switches on.  A function handed to the CPU thread is  *)
(* named by what it does.  A thread that needs the queue's mutex takes its *)
(* step when the mutex is free; RunOnCPUThread holds the mutex from its    *)
(* first statement until it returns or waits, so it is one step up to      *)
(* there.                                                                  *)
(***************************************************************************)
\* A u32 is two halves of 16 bits, hi the upper one: its value is
\* hi * Half + lo.
Half == 65536
U32Zero == [hi |-> 0, lo |-> 0]

\* c - 1 in a u32: below zero is the largest value.
U32Dec(c) ==
    IF c.lo > 0 THEN [c EXCEPT !.lo = @ - 1]
    ELSE IF c.hi > 0 THEN [hi |-> c.hi - 1, lo |-> Half - 1]
    ELSE [hi |-> Half - 1, lo |-> Half - 1]

Callers == {"UI", "Worker"}
HostThreads == Callers \cup {"CPU"}
Signals == {"SIGINT", "SIGTERM"}
VMStates == {"Shutdown", "Running", "Paused", "Stopping"}

\* What the functions handed to the CPU thread do: start the VM
\* (NoGUIHost::StartVM), pass a key to the input manager, whose hotkeys may
\* pause or resume, hand another function to the CPU thread, ask for exit,
\* or nothing this model keeps.
Functions == {"StartVM", "Key", "Post", "Plain", "RequestExit"}

Alive == exit_code = NotExited

\* VMManager::HasValidVM()
HasValidVM == vmState \in {"Running", "Paused"}

NoEvent == [id |-> 0, fn |-> "Plain", block |-> FALSE, by |-> "none"]

\* The CPU thread: where it is, the call of ProcessCPUThreadEvents it is in
\* (arg: the block it was called with, block: the parameter now, from: the
\* state CPUThreadMainLoop called it in), the event it popped, and for the
\* call how many events it has executed and whether it has waited.
NotStarted ==
    [pc |-> "notstarted", arg |-> FALSE, block |-> FALSE, from |-> "Shutdown",
     event |-> NoEvent, ran |-> 0, waited |-> FALSE]

\* std::signal(SIGINT, SignalHandler); std::signal(SIGTERM, SignalHandler);
HookSignals == [s \in Signals |-> "SignalHandler"]

\* s_cpu_thread.Start(CPUThreadEntryPoint): the thread is taken to run up to
\* CPUThreadMainLoop (the globals, the memory and the GS thread came up).
StartCPUThread == [NotStarted EXCEPT !.pc = "mainloop"]

\* Functions that hand another function over still have theirs to hand over.
Reserved ==
    Cardinality({k \in 1..Len(s_cpu_thread_events) : s_cpu_thread_events[k].fn = "Post"})
        + (IF cpu.pc = "pce_exec" /\ cpu.event.fn = "Post" THEN 1 ELSE 0)

Room(n) == posted + Reserved + n <= MaxPosts

\* s_cpu_thread_events.emplace_back(std::move(function), block)
Emplace(q, fn, block, by) ==
    Append(q, [id |-> posted + 1, fn |-> fn, block |-> block, by |-> by])

\* Host::RunOnCPUThread(function, block) called by thread t, up to its
\* return when it does not block and up to its wait when it does.
RunOnCPUThread(t, fn, block) ==
    /\ s_cpu_thread_events_mutex = "none"
    /\ waiting[t] = None
    /\ s_cpu_thread_events' = Emplace(s_cpu_thread_events, fn, block, t)
    /\ posted' = posted + 1
    /\ IF block
       THEN /\ waiting' = [waiting EXCEPT ![t] = Some(posted + 1)]
            /\ s_cpu_thread_events_mutex' = t
       ELSE UNCHANGED <<waiting, s_cpu_thread_events_mutex>>
    /\ UNCHANGED <<s_blocking_cpu_events_pending, returned>>

\* s_cpu_thread_event_done.wait(lock, pending == 0) of thread t: with the
\* mutex held the predicate is looked at; when it holds the call returns,
\* when not the thread gives the mutex up and sleeps until it looks again.
EventDoneWait(t) ==
    /\ waiting[t] # None
    /\ s_cpu_thread_events_mutex \in {t, "none"}
    /\ s_cpu_thread_events_mutex' = "none"
    /\ IF s_blocking_cpu_events_pending = U32Zero
       THEN /\ waiting' = [waiting EXCEPT ![t] = None]
            /\ returned' = returned \cup {waiting[t][1]}
       ELSE UNCHANGED <<waiting, returned>>
    /\ UNCHANGED <<mainVars, m_message_loop_running, sigVars, cpuVars,
                   s_cpu_thread_events, s_blocking_cpu_events_pending,
                   posted, executed, finished, exit_ways>>

\* A thread hands a function to the CPU thread: window messages of the UI
\* thread (keys, WM_CLOSE), which do not block, and whatever another thread
\* wants run, blocking or not.
Post(t, fn, block) ==
    /\ cpu.pc # "notstarted"
    /\ Room(IF fn = "Post" THEN 2 ELSE 1)
    /\ RunOnCPUThread(t, fn, block)
    /\ UNCHANGED <<mainVars, m_message_loop_running, sigVars, cpuVars,
                   executed, finished, exit_ways>>

\* void Host::RequestExit(bool): the VM state and the running flag it leaves.
RequestExitState == IF HasValidVM THEN "Stopping" ELSE vmState

\* UWPNoGUIPlatform::OnClosed: Host::RequestExit on the thread of the window.
OnClosed ==
    /\ cpu.pc # "notstarted"
    /\ vmState' = RequestExitState
    /\ s_running' = FALSE
    /\ exit_ways' = exit_ways \cup
           {IF vmState \in {"Paused", "Shutdown"} THEN "direct" ELSE "direct_running"}
    /\ UNCHANGED <<mainVars, m_message_loop_running, sigVars, cpu, queueVars,
                   executed, finished, returned>>

\* SignalHandler(signal), run where std::signal has put it.
SignalHandler(sig) ==
    /\ signal_handler[sig] = "SignalHandler"
    /\ IF ~graceful_shutdown_attempted
       THEN /\ graceful_shutdown_attempted' = TRUE
            /\ UNCHANGED <<signal_handler, exit_code>>
       ELSE /\ signal_handler' = [signal_handler EXCEPT ![sig] = "SIG_DFL"]
            /\ exit_code' = 1
            /\ UNCHANGED graceful_shutdown_attempted
    /\ UNCHANGED <<parseVars, mainpc, g_nogui_window, m_message_loop_running,
                   cpuVars, queueVars, logVars>>

\* One turn of the loop of CPUThreadMainLoop.  VMManager::Execute runs the
\* VM until its state changes and pumps the events in between
\* (Host::PumpMessagesOnCPUThread: ProcessCPUThreadEvents(false)).
CPUThreadMainLoop ==
    /\ cpu.pc = "mainloop"
    /\ IF vmState = "Stopping"
       THEN /\ vmState' = "Shutdown"
            /\ UNCHANGED cpu
       ELSE /\ cpu' = [cpu EXCEPT !.pc = "pce_entry",
                                  !.arg = vmState # "Running",
                                  !.block = vmState # "Running",
                                  !.from = vmState,
                                  !.ran = 0,
                                  !.waited = FALSE]
            /\ UNCHANGED vmState
    /\ UNCHANGED <<mainVars, m_message_loop_running, sigVars, s_running, queueVars, logVars>>

\* std::unique_lock lock(s_cpu_thread_events_mutex);
PCEEnter ==
    /\ cpu.pc = "pce_entry"
    /\ s_cpu_thread_events_mutex = "none"
    /\ s_cpu_thread_events_mutex' = "CPU"
    /\ cpu' = [cpu EXCEPT !.pc = "pce_check"]
    /\ UNCHANGED <<mainVars, m_message_loop_running, sigVars, s_running, vmState,
                   s_cpu_thread_events, s_blocking_cpu_events_pending, posted, waiting,
                   logVars>>

\* The front event taken with the mutex kept (a mutant).
Unlocked_Kept == "CPU"

\* lock.unlock() before event.first()
UnlockedForEvent == "none"

\* The parameter block left as it was after an event (a mutant).
BlockAfterEvent_Kept(block) == block

\* block = false;
BlockAfterEvent(block) == FALSE

\* block = false; event = front; pop_front; lock.unlock();
Pop ==
    /\ cpu' = [cpu EXCEPT !.pc = "pce_exec",
                          !.block = BlockAfterEvent(cpu.block),
                          !.event = Head(s_cpu_thread_events)]
    /\ s_cpu_thread_events' = Tail(s_cpu_thread_events)
    /\ s_cpu_thread_events_mutex' = UnlockedForEvent
    /\ executed' = Append(executed, Head(s_cpu_thread_events))

\* The head of the for loop, the mutex held: return, wait, or take an event.
PCECheck ==
    /\ cpu.pc = "pce_check"
    /\ IF s_cpu_thread_events = <<>>
       THEN /\ IF ~cpu.block \/ ~s_running
               THEN cpu' = [cpu EXCEPT !.pc = "pce_returned"]
               ELSE cpu' = [cpu EXCEPT !.pc = "pce_wait", !.waited = TRUE]
            /\ s_cpu_thread_events_mutex' = "none"
            /\ UNCHANGED <<s_cpu_thread_events, executed>>
       ELSE Pop
    /\ UNCHANGED <<mainVars, m_message_loop_running, sigVars, s_running, vmState,
                   s_blocking_cpu_events_pending, posted, waiting, finished, returned,
                   exit_ways>>

\* wait_for returns true: the queue is not empty and the mutex is held again.
\* While the queue is empty wait_for times out and the thread polls and waits
\* again, which changes nothing here.
PCEWake ==
    /\ cpu.pc = "pce_wait"
    /\ s_cpu_thread_events # <<>>
    /\ s_cpu_thread_events_mutex = "none"
    /\ Pop
    /\ UNCHANGED <<mainVars, m_message_loop_running, sigVars, s_running, vmState,
                   s_blocking_cpu_events_pending, posted, waiting, finished, returned,
                   exit_ways>>

\* event.first(): the function runs on the CPU thread.
PCEExec(started, toggled) ==
    /\ cpu.pc = "pce_exec"
    /\ LET fn == cpu.event.fn
       IN  /\ vmState' =
                 CASE fn = "StartVM" /\ started -> "Running"
                   [] fn = "Key" /\ toggled /\ vmState = "Running" -> "Paused"
                   [] fn = "Key" /\ toggled /\ vmState = "Paused" -> "Running"
                   [] fn = "RequestExit" -> RequestExitState
                   [] OTHER -> vmState
           /\ started => fn = "StartVM"
           /\ toggled => (fn = "Key" /\ HasValidVM)
           /\ s_running' = IF fn = "RequestExit" THEN FALSE ELSE s_running
           /\ exit_ways' = IF fn = "RequestExit" THEN exit_ways \cup {"event"} ELSE exit_ways
           /\ IF fn = "Post"
              THEN /\ RunOnCPUThread("CPU", "Plain", FALSE)
              ELSE /\ UNCHANGED <<queueVars, returned>>
    /\ finished' = finished \cup {cpu.event.id}
    /\ cpu' = [cpu EXCEPT !.pc = "pce_relock", !.ran = @ + 1]
    /\ UNCHANGED <<mainVars, m_message_loop_running, sigVars, executed>>

\* lock.lock(); if (event.second) { s_blocking_cpu_events_pending--; notify }
PCERelock ==
    /\ cpu.pc = "pce_relock"
    /\ s_cpu_thread_events_mutex = "none"
    /\ s_cpu_thread_events_mutex' = "CPU"
    /\ s_blocking_cpu_events_pending' =
           IF cpu.event.block
           THEN U32Dec(s_blocking_cpu_events_pending)
           ELSE s_blocking_cpu_events_pending
    /\ cpu' = [cpu EXCEPT !.pc = "pce_check", !.event = NoEvent]
    /\ UNCHANGED <<mainVars, m_message_loop_running, sigVars, s_running, vmState,
                   s_cpu_thread_events, posted, waiting, logVars>>

\* ProcessCPUThreadEvents has returned to CPUThreadMainLoop, which returns
\* from its Shutdown case when the running flag is clear.
PCEReturned ==
    /\ cpu.pc = "pce_returned"
    /\ cpu' = [cpu EXCEPT !.pc = IF cpu.from = "Shutdown" /\ ~s_running
                                 THEN "loop_returned"
                                 ELSE "mainloop"]
    /\ UNCHANGED <<mainVars, m_message_loop_running, sigVars, s_running, vmState,
                   queueVars, logVars>>

\* CPUThreadEntryPoint after CPUThreadMainLoop: g_nogui_window->QuitMessageLoop()
CPUThreadExit ==
    /\ cpu.pc = "loop_returned"
    /\ m_message_loop_running' = FALSE
    /\ cpu' = [cpu EXCEPT !.pc = "done"]
    /\ UNCHANGED <<mainVars, sigVars, s_running, vmState, queueVars, logVars>>

\* The CPU thread up to the return of CPUThreadMainLoop.
CPUThreadRuns ==
    \/ CPUThreadMainLoop
    \/ PCEEnter
    \/ PCECheck
    \/ PCEWake
    \/ \E started \in BOOLEAN, toggled \in BOOLEAN : PCEExec(started, toggled)
    \/ PCERelock
    \/ PCEReturned

CPUThread ==
    \/ CPUThreadRuns
    \/ CPUThreadExit

\* NoGUIHost::Initialize: the configuration, HookSignals, StartCPUThread.
\* What it leaves in the host when the configuration was read.
Initialize ==
    /\ signal_handler' = HookSignals
    /\ s_running' = TRUE
    /\ cpu' = StartCPUThread
    /\ UNCHANGED <<graceful_shutdown_attempted, vmState>>

\* NoGUIHost::StartVM(params): the function that starts the VM is handed over.
StartVM ==
    /\ RunOnCPUThread("UI", "StartVM", FALSE)
    /\ UNCHANGED <<executed, finished, exit_ways>>

\* main: if (!NoGUIHost::Initialize()) { g_nogui_window.reset(); return EXIT_FAILURE; }
MainInitialize(configured) ==
    /\ mainpc = "initialize"
    /\ IF configured
       THEN /\ Initialize
            /\ mainpc' = "startvm"
            /\ UNCHANGED <<g_nogui_window, exit_code>>
       ELSE /\ g_nogui_window' = FALSE
            /\ exit_code' = EXIT_FAILURE
            /\ mainpc' = "exited"
            /\ UNCHANGED <<sigVars, cpuVars>>
    /\ UNCHANGED <<parseVars, m_message_loop_running, queueVars, logVars>>

\* main: if (autoboot) NoGUIHost::StartVM(std::move(autoboot)); then the
\* message loop.
MainStartVM ==
    /\ mainpc = "startvm"
    /\ IF autoboot # None
       THEN StartVM
       ELSE UNCHANGED <<queueVars, logVars>>
    /\ mainpc' = "messageloop"
    /\ UNCHANGED <<parseVars, g_nogui_window, exit_code, m_message_loop_running,
                   sigVars, cpuVars>>

\* The host brought up in one go, with a VM to boot or without: the platform
\* window, NoGUIHost::Initialize and NoGUIHost::StartVM of main.
HostBoot(withVM) ==
    /\ cpu.pc = "notstarted"
    /\ ~g_nogui_window
    /\ g_nogui_window' = TRUE
    /\ m_message_loop_running' = TRUE
    /\ Initialize
    /\ IF withVM
       THEN StartVM
       ELSE UNCHANGED <<queueVars, logVars>>
    /\ UNCHANGED <<parseVars, mainpc, exit_code>>

(***************************************************************************)
(* NoGUIHost::Shutdown.  StopCPUThread takes the mutex of the queue,       *)
(* clears the running flag, notifies and joins the CPU thread.  The notify *)
(* wakes a CPU thread that waits in ProcessCPUThreadEvents, whose wait_for *)
(* looks at its predicate, the queue not being empty, and goes on waiting  *)
(* when it does not hold: PCEWake is that wait, and it has no other way    *)
(* out.                                                                    *)
(***************************************************************************)
\* s_cpu_thread.Joinable(): started and not joined yet.
Joinable == cpu.pc # "notstarted" /\ stop_pc # "returned"

\* StopCPUThread up to its Join: if (!Joinable()) return; { lock; store; notify; }
StopCPUThread ==
    /\ stop_pc = "idle"
    /\ IF Joinable
       THEN /\ s_cpu_thread_events_mutex = "none"
            /\ s_running' = FALSE
            /\ stop_pc' = "join"
       ELSE /\ stop_pc' = "returned"
            /\ UNCHANGED s_running
    /\ UNCHANGED <<mainVars, m_message_loop_running, sigVars, vmState, cpu, queueVars, logVars>>

\* s_cpu_thread.Join() returns when the CPU thread has ended.
StopCPUThreadJoin ==
    /\ stop_pc = "join"
    /\ cpu.pc = "done"
    /\ stop_pc' = "returned"
    /\ UNCHANGED <<mainVars, hostVars>>

(***************************************************************************)
(* The Win32 platform (Win32NoGUIPlatform): the window, the queue of       *)
(* posted messages of the thread that runs RunMessageLoop, WndProc, and    *)
(* the functions other threads pass to ExecuteInMessageLoop.  A handle is  *)
(* a number, NULL is 0, and CreateWindowExW gives each window a new one.   *)
(* WM_SIZE, WM_KEYDOWN, WM_LBUTTONDOWN and WM_CLOSE stand for the messages *)
(* WndProc has a call of the host for that hands a function to the CPU    *)
(* thread (WM_LBUTTONDOWN: a message with which one mouse button changes), *)
(* WM_PAINT for the messages it has no case for.  WM_QUIT is posted by     *)
(* nobody.                                                                 *)
(***************************************************************************)
NULL == 0

WM_SIZE == "WM_SIZE"
WM_KEYDOWN == "WM_KEYDOWN"
WM_LBUTTONDOWN == "WM_LBUTTONDOWN"
WM_CLOSE == "WM_CLOSE"
WM_PAINT == "WM_PAINT"
WM_FUNC == "WM_FUNC"
WM_WAKEUP == "WM_WAKEUP"

\* The messages WndProc has a call of the host for.
HostMessages == {WM_SIZE, WM_KEYDOWN, WM_LBUTTONDOWN, WM_CLOSE}

\* The messages the system posts for the user and for the window.
InputMessages == {WM_SIZE, WM_KEYDOWN, WM_LBUTTONDOWN, WM_CLOSE, WM_PAINT}

\* msg.message >= WM_FIRST && msg.message <= WM_LAST: the messages of the
\* platform's own.
SelfMessages == {WM_FUNC, WM_WAKEUP}

Message(hwnd, message, lParam) == [hwnd |-> hwnd, message |-> message, lParam |-> lParam]

\* WndProc with its test of the handle left out (a mutant).
WndProc_AnyWindow(hwnd, msg) ==
    CASE msg = WM_SIZE -> "ProcessPlatformWindowResize"
      [] msg = WM_KEYDOWN -> "ProcessPlatformKeyEvent"
      [] msg = WM_LBUTTONDOWN -> "ProcessPlatformMouseButtonEvent"
      [] msg = WM_CLOSE -> "RequestExit"
      [] msg = WM_FUNC -> "func"
      [] msg = WM_WAKEUP -> "break"
      [] OTHER -> "DefWindowProcW"

\* WndProc(hwnd, msg, wParam, lParam): what it calls.
WndProc(hwnd, msg) ==
    IF hwnd # m_hwnd /\ msg # WM_FUNC
    THEN "DefWindowProcW"
    ELSE CASE msg = WM_SIZE -> "ProcessPlatformWindowResize"
           [] msg = WM_KEYDOWN -> "ProcessPlatformKeyEvent"
           [] msg = WM_LBUTTONDOWN -> "ProcessPlatformMouseButtonEvent"
           [] msg = WM_CLOSE -> "RequestExit"
           [] msg = WM_FUNC -> "func"
           [] msg = WM_WAKEUP -> "break"
           [] OTHER -> "DefWindowProcW"

\* The function WndProc hands to the CPU thread for what it calls.
HostFunction(result) ==
    CASE result = "ProcessPlatformWindowResize" -> "Plain"
      [] result = "ProcessPlatformKeyEvent" -> "Key"
      [] result = "ProcessPlatformMouseButtonEvent" -> "Key"
      [] result = "RequestExit" -> "RequestExit"
      [] OTHER -> "none"

\* The body of the loop of RunMessageLoop for the message msg: WndProc for a
\* message of the platform's own without a window, else DispatchMessageW,
\* which calls the window procedure of the window the message is for and
\* nothing when there is no such window.
Dispatch(msg) ==
    IF msg.hwnd = NULL /\ msg.message \in SelfMessages
    THEN WndProc(NULL, msg.message)
    ELSE IF msg.hwnd \in windows
    THEN WndProc(msg.hwnd, msg.message)
    ELSE "dropped"

\* Messages in the queue that may make WndProc hand a function to the CPU thread.
WinReserved ==
    Cardinality({k \in 1..Len(msgq) : msgq[k].message \in HostMessages
                                      /\ msgq[k].hwnd # NULL})

\* The system posts a message to a window of the thread or to the thread.
PostInput(hwnd, message) ==
    /\ uipc \notin {"notstarted", "returned"}
    /\ Len(msgq) < MaxQueue
    /\ (message \in HostMessages /\ hwnd # NULL) =>
           posted + Reserved + WinReserved + 1 <= MaxPosts
    /\ msgq' = Append(msgq, Message(hwnd, message, 0))
    /\ UNCHANGED <<uipc, uifunc, funcs>>
    /\ UNCHANGED <<mainVars, hostVars, windowVars, displayVars, stop_pc>>

\* main: g_nogui_window->RunMessageLoop() is entered.
RunMessageLoopEnter ==
    /\ uipc = "notstarted"
    /\ cpu.pc # "notstarted"
    /\ uipc' = "while"
    /\ UNCHANGED <<msgq, uifunc, funcs>>
    /\ UNCHANGED <<mainVars, hostVars, windowVars, displayVars, stop_pc>>

\* while (m_message_loop_running.load(std::memory_order_acquire))
RunMessageLoopWhile ==
    /\ uipc = "while"
    /\ uipc' = IF m_message_loop_running THEN "GetMessageW" ELSE "returned"
    /\ UNCHANGED <<msgq, uifunc, funcs>>
    /\ UNCHANGED <<mainVars, hostVars, windowVars, displayVars, stop_pc>>

\* void Win32NoGUIPlatform::ExecuteInMessageLoop(func), called with a function
\* of the kind given: PostMessageW to the window when there is one, else
\* PostThreadMessageW.
ExecuteInMessageLoop(kind) ==
    /\ funcs' = Append(funcs, [kind |-> kind, runs |-> 0, freed |-> FALSE])
    /\ msgq' = Append(msgq, Message(m_hwnd, WM_FUNC, Len(funcs) + 1))

\* WM_FUNC: (*pfunc)(); delete pfunc;
FuncDone(f) == [funcs EXCEPT ![f].runs = @ + 1, ![f].freed = TRUE]

\* The function WndProc hands to the CPU thread, if it does.
Forward(result) ==
    IF HostFunction(result) # "none"
    THEN /\ RunOnCPUThread("UI", HostFunction(result), FALSE)
         /\ UNCHANGED <<m_message_loop_running, sigVars, cpuVars, executed, finished,
                        exit_ways>>
    ELSE UNCHANGED hostVars

\* GetMessageW has a message and the body of the loop deals with it, up to
\* the next test of the loop.  The function of AcquireHostDisplay is left
\* inside CreatePlatformWindow, after CreateWindowExW, ShowWindow and
\* UpdateWindow, in which the system calls WndProc for the new window
\* (with WM_SIZE here); hwnd: CreateWindowExW gave a window.  The function
\* of ReleaseHostDisplay is DestroyPlatformWindow: DestroyWindow(m_hwnd),
\* with which the messages posted to the window go, and m_hwnd = {}.
RunMessageLoopBody ==
    /\ uipc = "GetMessageW"
    /\ msgq # <<>>
    /\ LET msg == Head(msgq)
           result == Dispatch(msg)
           f == msg.lParam
       IN  IF result = "func" /\ funcs[f].kind = "create"
           THEN \E hwnd \in BOOLEAN :
                  /\ hwnd => windows_made < MaxWindows
                  /\ msgq' = Tail(msgq)
                  /\ IF hwnd
                     THEN /\ windows_made' = windows_made + 1
                          /\ windows' = windows \cup {windows_made + 1}
                          /\ Forward(WndProc(windows_made + 1, WM_SIZE))
                          /\ uipc' = "created"
                          /\ uifunc' = f
                          /\ UNCHANGED <<m_hwnd, funcs, s_host_display_created>>
                     ELSE /\ funcs' = FuncDone(f)
                          /\ s_host_display_created' = s_host_display_created + 1
                          /\ uipc' = "while"
                          /\ UNCHANGED <<hostVars, windowVars, uifunc>>
           ELSE IF result = "func"
           THEN /\ IF m_hwnd = NULL
                   THEN /\ msgq' = Tail(msgq)
                        /\ UNCHANGED windowVars
                   ELSE /\ windows' = windows \ {m_hwnd}
                        /\ m_hwnd' = NULL
                        /\ msgq' = SelectSeq(Tail(msgq), LAMBDA m : m.hwnd # m_hwnd)
                        /\ UNCHANGED windows_made
                /\ funcs' = FuncDone(f)
                /\ uipc' = "while"
                /\ UNCHANGED <<hostVars, uifunc, s_host_display_created>>
           ELSE /\ Forward(result)
                /\ msgq' = Tail(msgq)
                /\ uipc' = "while"
                /\ UNCHANGED <<windowVars, uifunc, funcs, s_host_display_created>>
    /\ UNCHANGED <<mainVars, s_host_display, acquiring, stop_pc>>

\* The rest of CreatePlatformWindow and of the function of
\* AcquireHostDisplay: m_hwnd = hwnd; the display is made for the window or,
\* when that fails, the window is destroyed again;
\* s_host_display_created.Post(); then WndProc deletes the function.
RunMessageLoopCreated(display) ==
    /\ uipc = "created"
    /\ funcs' = FuncDone(uifunc)
    /\ uifunc' = 0
    /\ IF display
       THEN /\ m_hwnd' = windows_made
            /\ UNCHANGED <<windows, msgq>>
       ELSE /\ m_hwnd' = NULL
            /\ windows' = windows \ {windows_made}
            /\ msgq' = SelectSeq(msgq, LAMBDA m : m.hwnd # windows_made)
    /\ s_host_display' = display
    /\ s_host_display_created' = s_host_display_created + 1
    /\ uipc' = "while"
    /\ UNCHANGED <<windows_made, acquiring, stop_pc>>
    /\ UNCHANGED <<mainVars, hostVars>>

\* Host::AcquireHostDisplay up to s_host_display_created.Wait(), called by
\* the thread that opens the display while the CPU thread is up.
AcquireHostDisplay ==
    /\ cpu.pc \notin {"notstarted", "loop_returned", "done"}
    /\ ~s_host_display
    /\ ~acquiring
    /\ Len(funcs) + 2 <= MaxFuncs
    /\ ExecuteInMessageLoop("create")
    /\ acquiring' = TRUE
    /\ UNCHANGED <<uipc, uifunc, s_host_display, s_host_display_created>>
    /\ UNCHANGED <<mainVars, hostVars, windowVars, stop_pc>>

\* s_host_display_created.Wait() returns and AcquireHostDisplay with it.
AcquireHostDisplayWait ==
    /\ acquiring
    /\ s_host_display_created > 0
    /\ s_host_display_created' = s_host_display_created - 1
    /\ acquiring' = FALSE
    /\ UNCHANGED <<mainVars, hostVars, windowVars, loopVars, s_host_display, stop_pc>>

\* void Host::ReleaseHostDisplay(), called until the CPU thread ends
\* (GetMTGS().WaitForClose() of CPUThreadEntryPoint is the last to).
ReleaseHostDisplay ==
    /\ cpu.pc \notin {"notstarted", "done"}
    /\ s_host_display
    /\ ~acquiring
    /\ Len(funcs) < MaxFuncs
    /\ s_host_display' = FALSE
    /\ ExecuteInMessageLoop("destroy")
    /\ UNCHANGED <<uipc, uifunc, s_host_display_created, acquiring>>
    /\ UNCHANGED <<mainVars, hostVars, windowVars, stop_pc>>

\* The end of CPUThreadEntryPoint on Win32: the display is closed, and
\* QuitMessageLoop clears the flag and posts WM_WAKEUP to the thread.
Win32CPUThreadExit ==
    /\ ~s_host_display
    /\ ~acquiring
    /\ CPUThreadExit
    /\ msgq' = Append(msgq, Message(NULL, WM_WAKEUP, 0))
    /\ UNCHANGED <<uipc, uifunc, funcs>>
    /\ UNCHANGED <<windowVars, displayVars, stop_pc>>

\* main after RunMessageLoop: NoGUIHost::Shutdown() has returned;
\* g_nogui_window.reset(); return EXIT_SUCCESS;
MainReturn ==
    /\ uipc = "returned"
    /\ stop_pc = "returned"
    /\ g_nogui_window' = FALSE
    /\ exit_code' = EXIT_SUCCESS
    /\ UNCHANGED <<parseVars, mainpc, hostVars, windowVars, displayVars, loopVars, stop_pc>>

Init ==
    /\ uwp \in BOOLEAN
    /\ mem = [p \in Pages |-> FreePage]
    /\ lastCall = NoCall
    /\ s_handler_head = 0
    /\ s_handler_tail = 0
    /\ handlers = [h \in Handlers |-> FreshHandler]
    /\ regCall = NoRegCall
    /\ inst = [i \in Installers |-> NotInstalling]
    /\ written = {}
    /\ writes = {}
    /\ listeners = <<>>
    /\ deregistered = {}
    /\ m_handled = FALSE
    /\ PageFault_Mutex = Unlocked
    /\ stack = [t \in Threads |-> <<>>]
    /\ argv = <<>>
    /\ arg_i = 1
    /\ no_more_args = FALSE
    /\ autoboot = None
    /\ s_batch_mode = FALSE
    /\ mainpc = "notstarted"
    /\ g_nogui_window = FALSE
    /\ exit_code = NotExited
    /\ m_message_loop_running = FALSE
    /\ signal_handler = [s \in Signals |-> "SIG_DFL"]
    /\ graceful_shutdown_attempted = FALSE
    /\ s_running = FALSE
    /\ vmState = "Shutdown"
    /\ cpu = NotStarted
    /\ s_cpu_thread_events = <<>>
    /\ s_blocking_cpu_events_pending = U32Zero
    /\ s_cpu_thread_events_mutex = "none"
    /\ posted = 0
    /\ waiting = [t \in HostThreads |-> None]
    /\ executed = <<>>
    /\ finished = {}
    /\ returned = {}
    /\ exit_ways = {}
    /\ stop_pc = "idle"
    /\ m_hwnd = NULL
    /\ windows = {}
    /\ windows_made = 0
    /\ msgq = <<>>
    /\ uipc = "notstarted"
    /\ uifunc = 0
    /\ funcs = <<>>
    /\ s_host_display = FALSE
    /\ s_host_display_created = 0
    /\ acquiring = FALSE

\* The caller reads what the call returned; it makes the next call after that.
CallReturned ==
    /\ lastCall # NoCall
    /\ lastCall' = NoCall
    /\ UNCHANGED mem

Idle == lastCall = NoCall

vars == <<uwp, listeners, deregistered, m_handled, PageFault_Mutex, stack,
          mem, lastCall, s_handler_head, s_handler_tail, handlers, regCall,
          inst, written, writes, mainVars, hostVars, winVars>>

(***************************************************************************)
(* The arena on its own: any caller, any arguments, any platform answer.   *)
(***************************************************************************)
NextArena ==
    \/ \E base \in Bases, size \in Sizes :
           Idle /\ MmapReservePtr(base, size) /\ UNCHANGED <<uwp, registryVars, faultVars, stepVars, mainVars, hostVars, winVars>>
    \/ \E base \in Bases, size \in Sizes, mode \in Modes :
           Idle /\ MmapCommitPtr(base, size, mode) /\ UNCHANGED <<uwp, registryVars, faultVars, stepVars, mainVars, hostVars, winVars>>
    \/ \E base \in Bases, size \in Sizes :
           Idle /\ MmapResetPtr(base, size) /\ UNCHANGED <<uwp, registryVars, faultVars, stepVars, mainVars, hostVars, winVars>>
    \/ \E base \in Bases, size \in Sizes :
           Idle /\ Mmap(base, size) /\ UNCHANGED <<uwp, registryVars, faultVars, stepVars, mainVars, hostVars, winVars>>
    \/ \E base \in Bases, size \in Sizes :
           Idle /\ Munmap(base, size) /\ UNCHANGED <<uwp, registryVars, faultVars, stepVars, mainVars, hostVars, winVars>>
    \/ \E base \in Bases, size \in Sizes, mode \in Modes :
           Idle /\ MemProtect(base, size, mode) /\ UNCHANGED <<uwp, registryVars, faultVars, stepVars, mainVars, hostVars, winVars>>
    \/ CallReturned /\ UNCHANGED <<uwp, registryVars, faultVars, stepVars, mainVars, hostVars, winVars>>

SpecArena == Init /\ [][NextArena]_vars

(***************************************************************************)
(* The registry on its own, in the _UWP build: code buffers are registered *)
(* one after the other, each with a block of storage no pointer leads to   *)
(* yet, and the unwinder looks addresses up in between.                    *)
(***************************************************************************)
NextRegistry ==
    \/ \E start \in CodeStarts, size \in CodeSizes, uh \in Handlers,
          rtl \in BOOLEAN, p1 \in BOOLEAN, p2 \in BOOLEAN, p3 \in BOOLEAN, p4 \in BOOLEAN :
           /\ uwp
           /\ RegIdle
           /\ ~Linked(uh)
           /\ UWPInstallExceptionHandlerForJIT(start, size, uh, rtl, p1, p2, p3, p4)
           /\ UNCHANGED <<uwp, arenaVars, faultVars, stepVars, mainVars, hostVars, winVars>>
    \/ \E pc \in ControlPcs :
           uwp /\ RegIdle /\ Lookup(pc) /\ UNCHANGED <<uwp, arenaVars, faultVars, stepVars, mainVars, hostVars, winVars>>
    \/ RegReturned /\ UNCHANGED <<uwp, arenaVars, faultVars, stepVars, mainVars, hostVars, winVars>>

SpecRegistry == Init /\ [][NextRegistry]_vars

(***************************************************************************)
(* The registry statement by statement, one thread registering one buffer  *)
(* after the other: the unwinder may look an address up between any two    *)
(* statements.                                                             *)
(***************************************************************************)
\* The thread that registers when only one does.
Loader == CHOOSE i \in Installers : TRUE

NextRegistrySteps ==
    \/ \E start \in CodeStarts, size \in CodeSizes, uh \in Handlers, rtl \in BOOLEAN :
           /\ uwp
           /\ NoneInstalling
           /\ InstallCall(Loader, start, size, uh, rtl)
           /\ UNCHANGED <<uwp, arenaVars, faultVars, mainVars, hostVars, winVars>>
    \/ InstallStep(Loader) /\ UNCHANGED <<uwp, arenaVars, faultVars, mainVars, hostVars, winVars>>
    \/ \E pc \in ControlPcs :
           uwp /\ RegIdle /\ Lookup(pc) /\ UNCHANGED <<uwp, arenaVars, faultVars, stepVars, mainVars, hostVars, winVars>>
    \/ RegReturned /\ UNCHANGED <<uwp, arenaVars, faultVars, stepVars, mainVars, hostVars, winVars>>

SpecRegistrySteps == Init /\ [][NextRegistrySteps]_vars

(***************************************************************************)
(* The registry statement by statement with nothing to keep two threads    *)
(* apart: registrations and lookups interleave freely.                     *)
(***************************************************************************)
NextRegistryRace ==
    \/ \E i \in Installers, start \in CodeStarts, size \in CodeSizes, uh \in Handlers,
          rtl \in BOOLEAN :
           /\ uwp
           /\ InstallCall(i, start, size, uh, rtl)
           /\ UNCHANGED <<uwp, arenaVars, faultVars, mainVars, hostVars, winVars>>
    \/ \E i \in Installers : InstallStep(i) /\ UNCHANGED <<uwp, arenaVars, faultVars, mainVars, hostVars, winVars>>
    \/ \E pc \in ControlPcs :
           uwp /\ RegIdle /\ Lookup(pc) /\ UNCHANGED <<uwp, arenaVars, faultVars, stepVars, mainVars, hostVars, winVars>>
    \/ RegReturned /\ UNCHANGED <<uwp, arenaVars, faultVars, stepVars, mainVars, hostVars, winVars>>

SpecRegistryRace == Init /\ [][NextRegistryRace]_vars

(***************************************************************************)
(* The fault filter on its own: two threads that fault, listeners that     *)
(* come and go.                                                            *)
(***************************************************************************)
NextFault ==
    \/ \E t \in Threads, code \in ExceptionCodes :
           RaiseException(t, code) /\ UNCHANGED <<uwp, arenaVars, registryVars, stepVars, mainVars, hostVars, winVars>>
    \/ \E t \in Threads : FilterCheckCode(t) /\ UNCHANGED <<uwp, arenaVars, registryVars, stepVars, mainVars, hostVars, winVars>>
    \/ \E t \in Threads : FilterLock(t) /\ UNCHANGED <<uwp, arenaVars, registryVars, stepVars, mainVars, hostVars, winVars>>
    \/ \E t \in Threads : DispatchBegin(t) /\ UNCHANGED <<uwp, arenaVars, registryVars, stepVars, mainVars, hostVars, winVars>>
    \/ \E t \in Threads, handled \in BOOLEAN :
           DispatchNotify(t, handled) /\ UNCHANGED <<uwp, arenaVars, registryVars, stepVars, mainVars, hostVars, winVars>>
    \/ \E t \in Threads : ListenerFaults(t) /\ UNCHANGED <<uwp, arenaVars, registryVars, stepVars, mainVars, hostVars, winVars>>
    \/ \E t \in Threads : FilterVerdict(t) /\ UNCHANGED <<uwp, arenaVars, registryVars, stepVars, mainVars, hostVars, winVars>>
    \/ \E t \in Threads : PlatformActs(t) /\ UNCHANGED <<uwp, arenaVars, registryVars, stepVars, mainVars, hostVars, winVars>>
    \/ \E l \in ListenerIds : RegisterListener(l) /\ UNCHANGED <<uwp, arenaVars, registryVars, stepVars, mainVars, hostVars, winVars>>
    \/ \E l \in ListenerIds : DeregisterListener(l) /\ UNCHANGED <<uwp, arenaVars, registryVars, stepVars, mainVars, hostVars, winVars>>

SpecFault == Init /\ [][NextFault]_vars

(***************************************************************************)
(* The start of the program: any command line, main up to its message      *)
(* loop.                                                                   *)
(***************************************************************************)
memVars == <<uwp, arenaVars, registryVars, faultVars, stepVars>>

NextMain ==
    \/ MainStart /\ UNCHANGED <<memVars, winVars>>
    \/ ParseArg /\ UNCHANGED <<memVars, winVars>>
    \/ ParseFinish /\ UNCHANGED <<memVars, winVars>>
    \/ MainParseFailed /\ UNCHANGED <<memVars, winVars>>
    \/ \E created \in BOOLEAN : MainCreatePlatform(created) /\ UNCHANGED <<memVars, winVars>>
    \/ \E configured \in BOOLEAN : MainInitialize(configured) /\ UNCHANGED <<memVars, winVars>>
    \/ MainStartVM /\ UNCHANGED <<memVars, winVars>>

SpecMain == Init /\ [][NextMain]_vars

(***************************************************************************)
(* The host at work: the CPU thread, the threads that hand it functions,   *)
(* the window that is closed, the signals.  Nothing runs once the process  *)
(* has exited.                                                             *)
(***************************************************************************)
NextHost ==
    \/ \E withVM \in BOOLEAN : HostBoot(withVM) /\ UNCHANGED <<memVars, winVars>>
    \/ \E fn \in {"Key", "Post", "RequestExit"} :
           Alive /\ Post("UI", fn, FALSE) /\ UNCHANGED <<memVars, winVars>>
    \/ \E block \in BOOLEAN : Alive /\ Post("Worker", "Plain", block) /\ UNCHANGED <<memVars, winVars>>
    \/ \E t \in Callers : Alive /\ EventDoneWait(t) /\ UNCHANGED <<memVars, winVars>>
    \/ Alive /\ OnClosed /\ UNCHANGED <<memVars, winVars>>
    \/ \E sig \in Signals : Alive /\ SignalHandler(sig) /\ UNCHANGED <<memVars, winVars>>
    \/ Alive /\ CPUThread /\ UNCHANGED <<memVars, winVars>>

SpecHost == Init /\ [][NextHost]_vars

\* The threads are threads of the operating system: one that can take a
\* step is given the processor.
SpecHostFair ==
    /\ SpecHost
    /\ WF_vars(Alive /\ CPUThread /\ UNCHANGED <<memVars, winVars>>)
    /\ \A t \in Callers : WF_vars(Alive /\ EventDoneWait(t) /\ UNCHANGED <<memVars, winVars>>)

(***************************************************************************)
(* The host and its way down: NoGUIHost::Shutdown may be called once the   *)
(* host is up (main calls it when RunMessageLoop has returned).            *)
(***************************************************************************)
NextShutdown ==
    \/ \E withVM \in BOOLEAN : HostBoot(withVM) /\ UNCHANGED <<memVars, winVars>>
    \/ \E fn \in {"Key", "RequestExit"} :
           Alive /\ Post("UI", fn, FALSE) /\ UNCHANGED <<memVars, winVars>>
    \/ Alive /\ CPUThread /\ UNCHANGED <<memVars, winVars>>
    \/ Alive /\ StopCPUThread /\ UNCHANGED <<memVars, windowVars, displayVars, loopVars>>
    \/ Alive /\ StopCPUThreadJoin /\ UNCHANGED <<memVars, windowVars, displayVars, loopVars>>

SpecShutdown == Init /\ [][NextShutdown]_vars

\* The CPU thread and the thread in Join are threads of the operating
\* system: one that can take a step is given the processor.
SpecShutdownFair ==
    /\ SpecShutdown
    /\ WF_vars(Alive /\ CPUThread /\ UNCHANGED <<memVars, winVars>>)
    /\ WF_vars(Alive /\ StopCPUThreadJoin /\ UNCHANGED <<memVars, windowVars, displayVars, loopVars>>)

(***************************************************************************)
(* The program on Win32: main in RunMessageLoop and after it, the CPU      *)
(* thread, the display that is opened and closed, the messages the system  *)
(* posts.                                                                  *)
(***************************************************************************)
NextWin32 ==
    \/ HostBoot(FALSE) /\ UNCHANGED <<memVars, winVars>>
    \/ Alive /\ RunMessageLoopEnter /\ UNCHANGED memVars
    \/ Alive /\ RunMessageLoopWhile /\ UNCHANGED memVars
    \/ Alive /\ RunMessageLoopBody /\ UNCHANGED memVars
    \/ \E display \in BOOLEAN : Alive /\ RunMessageLoopCreated(display) /\ UNCHANGED memVars
    \/ \E hwnd \in windows \cup {NULL} :
         \E message \in (IF hwnd = NULL THEN {WM_KEYDOWN} ELSE InputMessages) :
           Alive /\ PostInput(hwnd, message) /\ UNCHANGED memVars
    \/ Alive /\ AcquireHostDisplay /\ UNCHANGED memVars
    \/ Alive /\ AcquireHostDisplayWait /\ UNCHANGED memVars
    \/ Alive /\ ReleaseHostDisplay /\ UNCHANGED memVars
    \/ Alive /\ CPUThreadRuns /\ UNCHANGED <<memVars, winVars>>
    \/ Alive /\ Win32CPUThreadExit /\ UNCHANGED memVars
    \/ Alive /\ uipc = "returned" /\ StopCPUThread
             /\ UNCHANGED <<memVars, windowVars, displayVars, loopVars>>
    \/ Alive /\ StopCPUThreadJoin /\ UNCHANGED <<memVars, windowVars, displayVars, loopVars>>
    \/ Alive /\ MainReturn /\ UNCHANGED memVars

SpecWin32 == Init /\ [][NextWin32]_vars

(***************************************************************************)
(* Claims about the arena and the protection mapping.                      *)
(***************************************************************************)

\* What a mode asks for is allowed by what the protection grants.
GrantsAll(prot, mode) ==
    /\ mode.r => Grants(prot).r
    /\ mode.w => Grants(prot).w
    /\ mode.x => Grants(prot).x

\* C2: whatever triple a caller commits pages with, the protection
\* ConvertToWinApi derives from it grants every permission the triple asks
\* for (it may add permissions, it removes none).
C2_MappingKeepsRequested ==
    (lastCall.op = "MmapCommit" /\ lastCall.ok) =>
        GrantsAll(ConvertToWinApi(lastCall.mode), lastCall.mode)

\* C9: Mmap either returns a base whose pages are committed with at least read
\* and execute, or returns null and leaves the page table as it was before
\* the call.
C9_MmapAllOrNothing ==
    [][lastCall'.op = "Mmap" =>
          IF lastCall'.addr # 0
          THEN \A p \in PagesOf(lastCall'.addr, lastCall'.size) :
                   /\ mem'[p].st = "committed"
                   /\ Grants(mem'[p].prot).r
                   /\ Grants(mem'[p].prot).x
          ELSE mem' = mem]_vars

\* C10: after a successful MmapCommitPtr(base, size, mode) at a given base,
\* every page of the range is committed with exactly ConvertToWinApi(mode).
C10_CommitExactProtection ==
    (lastCall.op = "MmapCommit" /\ lastCall.ok /\ lastCall.base # 0) =>
        \A p \in PagesOf(lastCall.base, lastCall.size) :
            /\ mem[p].st = "committed"
            /\ mem[p].prot = ConvertToWinApi(lastCall.mode)

\* C11: a commit that met ERROR_COMMITMENT_MINIMUM has paused once and asked
\* the platform a second time; a commit that met a firm out-of-memory error
\* has not paused, has asked once and reports failure.
C11_CommitRetriesOnce ==
    lastCall.op = "MmapCommit" =>
        /\ lastCall.err = ERROR_COMMITMENT_MINIMUM =>
              lastCall.slept = 1 /\ lastCall.attempts = 2
        /\ lastCall.err \in {ERROR_NOT_ENOUGH_MEMORY, ERROR_OUTOFMEMORY} =>
              lastCall.slept = 0 /\ lastCall.attempts = 1 /\ ~lastCall.ok

\* C12: a commit call sleeps at most once, and only for
\* ERROR_COMMITMENT_MINIMUM, asks the platform to commit at least once and at
\* most twice, and reports false whenever a platform call of it failed.
C12_CommitBounded ==
    lastCall.op = "MmapCommit" =>
        /\ lastCall.slept \in {0, 1}
        /\ lastCall.slept = 1 => lastCall.err = ERROR_COMMITMENT_MINIMUM
        /\ lastCall.attempts \in {1, 2}
        /\ lastCall.failed => ~lastCall.ok
        /\ lastCall.ok => ~lastCall.failed

\* C12, witness: a commit the platform refused with ERROR_COMMITMENT_MINIMUM
\* has slept once and returned false.
C12_Witness ==
    /\ lastCall.op = "MmapCommit"
    /\ lastCall.err = ERROR_COMMITMENT_MINIMUM
    /\ lastCall.failed
    /\ lastCall.slept = 1
    /\ ~lastCall.ok

Aligned(x) == x % PageSize = 0

\* C13: an arena call whose address or size is not a multiple of the page
\* size changes no page, and a reserve or a commit so called reports failure.
C13_UnalignedRejected ==
    [][(/\ lastCall'.op \in {"MmapReserve", "MmapCommit", "MmapReset", "Munmap", "MemProtect"}
        /\ ~(Aligned(lastCall'.base) /\ Aligned(lastCall'.size))) =>
          /\ mem' = mem
          /\ lastCall'.op \in {"MmapReserve", "MmapCommit"} => ~lastCall'.ok]_vars

\* C14: a MemProtect whose protection change the platform refused tells its
\* caller so and leaves the page table as it was.
C14_ProtectFailureReturned ==
    [][(lastCall'.op = "MemProtect" /\ lastCall'.failed) =>
          /\ ~lastCall'.ok
          /\ mem' = mem]_vars

\* The pages of [base, base+size) are pages of one region of m.
OneRegion(m, base, size) ==
    /\ base # 0 /\ size > 0
    /\ PageOf(base) >= 1 /\ PageOf(base + size - 1) <= NPages
    /\ \A p \in PagesOf(base, size) :
           m[p].st # "free" /\ m[p].alloc = m[PageOf(base)].alloc

\* C15: a commit of a range whose pages are all committed with the protection
\* of its mode succeeds and changes no page; a decommit of a range whose
\* pages are all reserved and not committed succeeds and changes no page.
C15_CommitDecommitIdempotent ==
    [][/\ (/\ lastCall'.op = "MmapCommit"
            /\ OneRegion(mem, lastCall'.base, lastCall'.size)
            /\ \A p \in PagesOf(lastCall'.base, lastCall'.size) :
                   /\ mem[p].st = "committed"
                   /\ mem[p].prot = ConvertToWinApi(lastCall'.mode)) =>
              (lastCall'.ok /\ mem' = mem)
       /\ (/\ lastCall'.op = "MmapReset"
            /\ OneRegion(mem, lastCall'.base, lastCall'.size)
            /\ \A p \in PagesOf(lastCall'.base, lastCall'.size) : mem[p].st = "reserved") =>
              (~lastCall'.failed /\ mem' = mem)]_vars

\* base is the address a region of m was reserved at.
RegionBase(m, base) ==
    /\ Aligned(base)
    /\ PageOf(base) \in Pages
    /\ m[PageOf(base)].st # "free"
    /\ m[PageOf(base)].alloc = PageOf(base)

\* C16: Munmap of the base of a region frees every page of the region,
\* reserved or committed, whatever size it is given, and touches no other
\* page; Munmap of a null base changes nothing.
C16_ReleaseFreesRegion ==
    [][lastCall'.op = "Munmap" =>
          /\ lastCall'.base = 0 => mem' = mem
          /\ RegionBase(mem, lastCall'.base) =>
                /\ ~lastCall'.failed
                /\ \A p \in Pages :
                       mem'[p] = IF mem[p].alloc = PageOf(lastCall'.base)
                                 THEN FreePage ELSE mem[p]]_vars

\* C16, witness: a region was released and the address space is empty again.
C16_Witness ==
    /\ lastCall.op = "Munmap"
    /\ lastCall.base # 0
    /\ ~lastCall.failed
    /\ \A p \in Pages : mem[p] = FreePage

(***************************************************************************)
(* Claims about the registry of unwind handlers.                           *)
(***************************************************************************)

\* C1: a call of UWPInstallExceptionHandlerForJIT that returns false leaves
\* s_handler_head, s_handler_tail and the chain of entries reachable from the
\* head exactly as they were before the call.
C1_FailedInstallChangesNothing ==
    [][(regCall'.op = "Install" /\ ~regCall'.ok) =>
          /\ s_handler_head' = s_handler_head
          /\ s_handler_tail' = s_handler_tail
          /\ Chain' = Chain]_vars

\* The places in the chain of the handlers whose range holds pc.
Matches(pc) ==
    {i \in 1..Len(Chain) :
        pc >= handlers[Chain[i]].code_base /\ pc < handlers[Chain[i]].code_end}

Least(S) == CHOOSE x \in S : \A y \in S : x <= y

\* C17: a lookup returns the first handler in chain order whose
\* [code_base, code_end) holds the address, and nothing when none does; after
\* a successful registration of [start, start+size) the new handler is in the
\* chain with exactly that range, every address of the range is found and
\* start+size is outside the new handler's range.
C17_LookupFirstMatch ==
    /\ regCall.op = "Lookup" =>
          regCall.found = IF Matches(regCall.start) = {} THEN 0
                          ELSE Chain[Least(Matches(regCall.start))]
    /\ (regCall.op = "Install" /\ regCall.ok) =>
          /\ regCall.uh \in Range(Chain)
          /\ \A pc \in ControlPcs :
                (pc >= regCall.start /\ pc < regCall.start + regCall.size) =>
                    /\ GetRuntimeFunctionCallback(pc) # 0
                    /\ \E i \in Matches(pc) : Chain[i] = regCall.uh
          /\ \A i \in Matches(regCall.start + regCall.size) : Chain[i] # regCall.uh

\* C17, witness: two handlers hold the address and the lookup returned the
\* one registered first.
C17_Witness ==
    /\ regCall.op = "Lookup"
    /\ Cardinality(Matches(regCall.start)) = 2
    /\ regCall.found = Chain[1]

\* C18: every registration call, failed ones included, leaves the chain it
\* found as the beginning of the chain, in the same order; the chain never
\* holds a handler twice and its last handler is s_handler_tail.
C18_AppendOnly ==
    [][/\ Len(Chain) <= Len(Chain')
       /\ SubSeq(Chain', 1, Len(Chain)) = Chain
       /\ Cardinality(Range(Chain')) = Len(Chain')
       /\ s_handler_tail' = IF Chain' = <<>> THEN 0 ELSE Chain'[Len(Chain')]]_vars

\* The handlers a lookup of pc walks over: the chain up to the first match.
Visited(pc) ==
    IF Matches(pc) = {} THEN Range(Chain)
    ELSE {Chain[i] : i \in 1..Least(Matches(pc))}

\* C19: under any interleaving of registering threads and lookups, a lookup
\* walks only over handlers whose code range and next pointer have been
\* written, and the handler of every registration that returned true is
\* reachable from the head.
C19_RegistryAtomic ==
    [][/\ (regCall'.op = "Lookup" /\ regCall' # regCall) =>
              (Visited(regCall.start))' \subseteq written'
       /\ \A i \in Installers :
              (inst'[i].pc = "done" /\ inst'[i].ok) => inst'[i].uh \in Range(Chain')]_vars

\* C20: in a registration on its own, handler storage is read-write at every
\* write to it (the previous tail's next pointer, the fields of the new
\* handler), and when the call has returned true the new handler and the
\* previous tail are execute-read.
C20_WrittenOnlyWhileReadWrite ==
    /\ writes \subseteq {PAGE_READWRITE}
    /\ \A i \in Installers :
          /\ inst[i].pc = "link" => handlers[s_handler_tail].prot = PAGE_READWRITE
          /\ inst[i].pc = "fill" => handlers[inst[i].uh].prot = PAGE_READWRITE
          /\ (inst[i].pc = "done" /\ inst[i].ok) =>
                /\ handlers[inst[i].uh].prot = PAGE_EXECUTE_READ
                /\ inst[i].prev # 0 => handlers[inst[i].prev].prot = PAGE_EXECUTE_READ

\* C20, witness: a registration behind an earlier handler has returned true.
C20_Witness ==
    \E i \in Installers :
        /\ inst[i].pc = "done"
        /\ inst[i].ok
        /\ inst[i].prev # 0
        /\ handlers[inst[i].prev].next = inst[i].uh
        /\ writes # {}

(***************************************************************************)
(* Claims about the fault filter and the dispatch.                         *)
(***************************************************************************)
FramesOf(t) == {stack[t][i] : i \in 1..Len(stack[t])}
AllFrames == UNION {FramesOf(t) : t \in Threads}
InDispatch(t) == \E f \in FramesOf(t) : f.pc \in {"dispatch", "notify", "verdict"}

\* C3: a Dispatch walks the listeners in registration order and invokes each
\* at most once: what it has invoked is always a prefix of the registered
\* list; it goes on only while none has handled; when it ends, either the
\* last one invoked handled the fault and none after it was invoked, or all
\* were invoked and the result is not handled.
C3_DispatchInOrderStopsAtFirst ==
    \A f \in AllFrames :
        f.pc \in {"notify", "verdict"} =>
            /\ f.snap = listeners
            /\ f.log = SubSeq(f.snap, 1, Len(f.log))
            /\ f.pc = "notify" => ~f.own /\ Len(f.log) = f.idx - 1
            /\ f.pc = "verdict" => m_handled = f.own
            /\ (f.pc = "verdict" /\ ~f.own) => f.log = f.snap
            /\ (f.pc = "verdict" /\ f.own) => Len(f.log) = f.idx

\* C3, witness: three listeners, the second one handled, the third was not invoked.
C3_Witness ==
    \E t \in Threads :
        /\ stack[t] # <<>>
        /\ Top(t).pc = "verdict"
        /\ Len(Top(t).snap) = 3
        /\ Top(t).log = SubSeq(Top(t).snap, 1, 2)
        /\ Top(t).own

\* C4: the filter returns continue-execution exactly when the exception is an
\* access violation and a listener of its dispatch handled it; a filter run
\* for another exception code never holds the lock, never dispatches and
\* returns continue-search.
C4_ResumeOnlyIfHandled ==
    /\ \A t \in Threads : \A f \in FramesOf(t) :
          f.code # EXCEPTION_ACCESS_VIOLATION =>
              /\ f.pc \in {"filter", "returned"}
              /\ PageFault_Mutex.owner # t
              /\ f.n = 0 /\ f.invoked = 0 /\ f.log = <<>>
    /\ \A f \in AllFrames :
          f.pc = "returned" =>
              (f.ret = EXCEPTION_CONTINUE_EXECUTION
                  <=> (f.code = EXCEPTION_ACCESS_VIOLATION /\ f.own))

\* C4, witness: an access violation a listener handled, execution resumes.
C4_Witness ==
    \E f \in AllFrames :
        /\ f.pc = "returned"
        /\ f.code = EXCEPTION_ACCESS_VIOLATION
        /\ f.own
        /\ f.ret = EXCEPTION_CONTINUE_EXECUTION

\* C5: a Dispatch with no listener registered ends not handled, and the
\* filter then returns continue-search.
C5_NoListenersUnhandled ==
    \A f \in AllFrames :
        /\ (f.pc = "verdict" /\ f.snap = <<>>) => ~m_handled
        /\ (f.pc = "returned" /\ f.code = EXCEPTION_ACCESS_VIOLATION /\ f.n = 0) =>
              f.ret = EXCEPTION_CONTINUE_SEARCH

\* C5, witness: an access violation dispatched to no listener at all.
C5_Witness ==
    \E f \in AllFrames :
        /\ f.pc = "returned"
        /\ f.code = EXCEPTION_ACCESS_VIOLATION
        /\ f.n = 0
        /\ f.ret = EXCEPTION_CONTINUE_SEARCH

\* C6: at most one thread is between taking the dispatch lock and returning
\* its verdict, that thread holds the lock, and the verdict a filter reads
\* and returns is the one its own dispatch produced.
C6_OneDispatchAtATime ==
    /\ Cardinality({t \in Threads : InDispatch(t)}) <= 1
    /\ \A t \in Threads : InDispatch(t) => PageFault_Mutex.owner = t
    /\ \A f \in AllFrames :
          /\ f.pc = "verdict" => m_handled = f.own
          /\ (f.pc = "returned" /\ f.code = EXCEPTION_ACCESS_VIOLATION) =>
                (f.ret = EXCEPTION_CONTINUE_EXECUTION <=> f.own)

\* C6, witness: one thread has dispatched and is about to read the verdict
\* while the other thread's fault waits for the lock.
C6_Witness ==
    \E t, u \in Threads :
        /\ t # u
        /\ stack[t] # <<>> /\ Top(t).pc = "verdict" /\ Top(t).own
        /\ stack[u] # <<>> /\ Top(u).pc = "lock"

\* C7: a thread that is dispatching a fault and faults again never blocks on
\* the dispatch lock it holds and never enters dispatch a second time.
C7_RecursiveFaultPassedOn ==
    \A t \in Threads :
        /\ \A f \in FramesOf(t) : f.pc # "blocked"
        /\ Cardinality({i \in 1..Len(stack[t]) :
                           stack[t][i].pc \in {"dispatch", "notify", "verdict"}}) <= 1

MappingTable ==
    [mode \in Modes |->
        CASE mode = [r |-> FALSE, w |-> FALSE, x |-> FALSE] -> PAGE_NOACCESS
          [] mode = [r |-> FALSE, w |-> TRUE,  x |-> FALSE] -> PAGE_NOACCESS
          [] mode = [r |-> TRUE,  w |-> FALSE, x |-> FALSE] -> PAGE_READONLY
          [] mode = [r |-> TRUE,  w |-> TRUE,  x |-> FALSE] -> PAGE_READWRITE
          [] mode = [r |-> FALSE, w |-> FALSE, x |-> TRUE]  -> PAGE_EXECUTE_READ
          [] mode = [r |-> TRUE,  w |-> FALSE, x |-> TRUE]  -> PAGE_EXECUTE_READ
          [] mode = [r |-> FALSE, w |-> TRUE,  x |-> TRUE]  -> PAGE_EXECUTE_READWRITE
          [] mode = [r |-> TRUE,  w |-> TRUE,  x |-> TRUE]  -> PAGE_EXECUTE_READWRITE]

\* C21: for each of the eight triples the mapping returns execute-read-write
\* for execute with write, execute-read for execute without write, otherwise
\* read-write for read with write, read-only for read alone and no-access
\* without read and execute; it depends on the triple alone, so whatever the
\* page table holds, a MemProtect the platform accepted leaves its pages with
\* the protection of the table.
C21_MappingTable ==
    /\ \A mode \in Modes : ConvertToWinApi(mode) = MappingTable[mode]
    /\ (lastCall.op = "MemProtect" /\ ~lastCall.failed) =>
           \A p \in PagesOf(lastCall.base, lastCall.size) :
               mem[p].prot = MappingTable[lastCall.mode]

\* A page that was execute-read-write has been protected read-write.
C21_Witness ==
    /\ lastCall.op = "MemProtect" /\ ~lastCall.failed
    /\ lastCall.mode = [r |-> TRUE, w |-> TRUE, x |-> FALSE]
    /\ \E p \in PagesOf(lastCall.base, lastCall.size) : mem[p].prot = PAGE_READWRITE


(***************************************************************************)
(* Claims about the command line.  Argument k is argv[k] of the code,      *)
(* 1 <= k < argc.                                                          *)
(***************************************************************************)
Args == 1..(argc - 1)
ParamOptions == {"-state", "-statefile", "-elf", "-disc"}
Recognised ==
    {"-help", "-version", "-batch", "-fastboot", "-slowboot", "-state", "-statefile",
     "-elf", "-disc", "-bios", "-fullscreen", "-nofullscreen", "--"}

\* Argument k is the parameter of the option before it (no `--` has been
\* read as a switch before k).
RECURSIVE Consumed(_)
Consumed(k) == k >= 2 /\ Arg(k - 1) \in ParamOptions /\ ~Consumed(k - 1)

\* The arguments that are `--`, and those of them that are no parameter.
Dashes == {k \in Args : Arg(k) = "--"}
Switches == {k \in Dashes : ~Consumed(k)}

\* The parser is about to read argument arg_i and does so in this step.
ReadsArg == mainpc = "parse" /\ arg_i < argc /\ <<arg_i, mainpc>>' # <<arg_i, mainpc>>

\* Two parts of a filename joined by a single space.
JoinSpace(filename, arg) == IF filename = "" THEN arg ELSE filename \o " " \o arg

\* The step does nothing but append argv[arg_i] to the boot filename.
AppendsToFilename ==
    /\ mainpc' = "parse"
    /\ arg_i' = arg_i + 1
    /\ autoboot' = Some([AutoBoot(autoboot) EXCEPT
                             !.filename = JoinSpace(@, Arg(arg_i))])
    /\ s_batch_mode' = s_batch_mode
    /\ no_more_args' = no_more_args

\* C22 as stated: after an argument `--`, wherever it stands, every remaining
\* argument is appended to the boot filename, in order and joined by single
\* spaces, and none is read as an option.
C22_AfterAnyDashDash ==
    [][(ReadsArg /\ Dashes # {} /\ arg_i > Least(Dashes)) => AppendsToFilename]_vars

\* C22: after a `--` that is not itself the parameter of -state, -statefile,
\* -elf or -disc, every remaining argument, also one that starts with '-', is
\* appended to the boot filename, in order and joined by single spaces, and
\* none is read as an option.
C22_AfterSwitchAllFilename ==
    [][(ReadsArg /\ Switches # {} /\ arg_i > Least(Switches)) => AppendsToFilename]_vars

\* `-- a -x` has been parsed: the filename is "a -x".
C22_Witness ==
    /\ mainpc = "parsed_true"
    /\ argv = <<ProgramPath, "--", "a", "-x">>
    /\ autoboot # None
    /\ autoboot[1].filename = "a -x"

FlagsOnly == {"-batch", "-fastboot", "-slowboot", "-fullscreen", "-nofullscreen"}

\* C23: when ParseCommandLineOptions has returned true, autoboot is non-null
\* only with a source type, a boot filename or an ELF override (a source type
\* with -disc or -bios given, an override with -elf given); batch mode is on
\* only with autoboot non-null; a
\* command line of nothing but -batch, -fullscreen and the like leaves
\* autoboot null and batch mode off.
C23_AutobootNeedsSource ==
    mainpc = "parsed_true" =>
        /\ autoboot # None =>
              /\ \/ autoboot[1].source_type # None
                 \/ autoboot[1].filename # ""
                 \/ autoboot[1].elf_override # ""
              /\ autoboot[1].source_type # None =>
                     \E k \in Args : Arg(k) \in {"-disc", "-bios"}
              /\ autoboot[1].elf_override # "" => \E k \in Args : Arg(k) = "-elf"
        /\ s_batch_mode => autoboot # None
        /\ (\A k \in Args : Arg(k) \in FlagsOnly) => (autoboot = None /\ ~s_batch_mode)

\* `-batch -fullscreen` has been parsed: no boot, batch mode off again.
C23_Witness ==
    /\ mainpc = "parsed_true"
    /\ argv = <<ProgramPath, "-batch", "-fullscreen">>
    /\ autoboot = None
    /\ ~s_batch_mode

\* Argument k is no recognised option though it starts with '-', or is an
\* option that needs a parameter and is the last argument.
NotAnOption(k) ==
    \/ SubSeq(Arg(k), 1, 1) = "-" /\ Arg(k) \notin Recognised
    \/ Arg(k) \in ParamOptions /\ k = argc - 1

\* main has ended with EXIT_FAILURE, or will, with no platform window and no
\* CPU thread.
ParseRejects ==
    /\ mainpc \in {"parse", "parsed_false", "exited"}
    /\ mainpc = "exited" => exit_code = EXIT_FAILURE
    /\ ~g_nogui_window
    /\ cpu.pc = "notstarted"
    /\ ~s_running

\* C24 as stated: any argument before `--` that is no option in the sense
\* above makes ParseCommandLineOptions return false, and main exits with
\* EXIT_FAILURE without the platform window and without the CPU thread.
C24_AnyUnknownRejected ==
    (mainpc # "notstarted"
     /\ \E k \in Args : NotAnOption(k) /\ \A d \in Dashes : k < d) => ParseRejects

\* C24: any argument before the `--` switch that is not the parameter of the
\* option before it and is no option in the sense above makes
\* ParseCommandLineOptions return false, and main exits with EXIT_FAILURE
\* without the platform window and without the CPU thread.
C24_UnknownOptionRejected ==
    (mainpc # "notstarted"
     /\ \E k \in Args : NotAnOption(k) /\ ~Consumed(k) /\ \A d \in Switches : k < d)
        => ParseRejects

\* `-batch -elf` has made main exit with EXIT_FAILURE.
C24_Witness ==
    /\ mainpc = "exited"
    /\ argv = <<ProgramPath, "-batch", "-elf">>
    /\ exit_code = EXIT_FAILURE
    /\ ~g_nogui_window


(***************************************************************************)
(* Claims about the host: signals, exit requests, the functions handed to  *)
(* the CPU thread.                                                         *)
(***************************************************************************)

\* Host::RequestExit has been called, or a function that calls it is in the
\* queue or being run.
ExitRequestReached ==
    \/ exit_ways # {}
    \/ \E k \in 1..Len(s_cpu_thread_events) : s_cpu_thread_events[k].fn = "RequestExit"
    \/ cpu.pc = "pce_exec" /\ cpu.event.fn = "RequestExit"

\* C25: the first SIGINT or SIGTERM handled leaves an exit request with the
\* host and the process running; a signal handled after that restores the
\* default handler of the signal and ends the process with status 1.
C25_SignalsShutDown ==
    [][/\ (~graceful_shutdown_attempted /\ graceful_shutdown_attempted') =>
              (ExitRequestReached' /\ exit_code' = NotExited)
       /\ (graceful_shutdown_attempted /\ signal_handler' # signal_handler) =>
              (exit_code' = 1 /\ \E sig \in Signals : signal_handler'[sig] = "SIG_DFL")]_vars

\* The CPU thread has left CPUThreadMainLoop with the VM shut down and has
\* called QuitMessageLoop.
CPUThreadEnded == cpu.pc = "done" /\ vmState = "Shutdown" /\ ~m_message_loop_running

\* C26: once Host::RequestExit has been called, by a function run on the CPU
\* thread or by another thread while the VM was paused or shut down, the CPU
\* thread leaves its main loop with the VM shut down and QuitMessageLoop is
\* called (unless a second signal ends the process first).
C26_ExitEndsCPUThread ==
    (exit_ways \cap {"event", "direct"} # {}) ~> (CPUThreadEnded \/ ~Alive)

\* C27: ProcessCPUThreadEvents(false) never waits and returns at the first
\* look at an empty queue; ProcessCPUThreadEvents(true) returns only from an
\* empty queue, after it has run an event or, having run none and never
\* waited, with the running flag clear; once it has run an event it does not
\* wait again and takes every event it finds.
C27_ProcessEventsReturns ==
    [][/\ cpu'.pc = "pce_wait" => (cpu'.arg /\ cpu'.ran = 0)
       /\ (cpu.pc = "pce_check" /\ cpu' # cpu) =>
              IF s_cpu_thread_events # <<>>
              THEN cpu'.pc = "pce_exec"
              ELSE IF ~cpu.arg \/ cpu.ran > 0
              THEN cpu'.pc = "pce_returned"
              ELSE cpu'.pc \in {"pce_returned", "pce_wait"}
       /\ (cpu.pc # "pce_returned" /\ cpu'.pc = "pce_returned") =>
              /\ s_cpu_thread_events' = <<>>
              /\ cpu'.arg => (cpu'.ran > 0 \/ (~s_running /\ ~cpu'.waited))]_vars

\* ProcessCPUThreadEvents(true) has waited, then run two events and returned.
C27_Witness ==
    /\ cpu.pc = "pce_returned"
    /\ cpu.arg /\ cpu.waited
    /\ cpu.ran = 2
    /\ s_running

\* C28: a blocking RunOnCPUThread has returned only when its function has run
\* to its end on the CPU thread.
C28_BlockingReturnsAfterRun == returned \subseteq finished

\* The blocking functions in the queue or being run.
BlockingPending ==
    Cardinality({k \in 1..Len(s_cpu_thread_events) : s_cpu_thread_events[k].block})
        + (IF cpu.pc \in {"pce_exec", "pce_relock"} /\ cpu.event.block THEN 1 ELSE 0)

\* C29: the counter of pending blocking events is the number of blocking
\* functions in the queue or being run (so it does not go below zero, and a
\* blocking call made when the earlier ones are done finds it zero).
C29_PendingCountsBlocking ==
    s_blocking_cpu_events_pending = [hi |-> 0, lo |-> BlockingPending]

\* C30: the CPU thread takes the functions up in the order they were put in
\* the queue (the k-th it takes up is the k-th that was handed over), each
\* once, the queue holds the ones not yet taken up, and while a function runs
\* the CPU thread does not hold the mutex of the queue.
C30_EventsInOrderUnlocked ==
    /\ \A k \in 1..Len(executed) : executed[k].id = k
    /\ \A k \in 1..Len(s_cpu_thread_events) :
           s_cpu_thread_events[k].id = Len(executed) + k
    /\ Len(executed) + Len(s_cpu_thread_events) = posted
    /\ finished \subseteq {executed[k].id : k \in 1..Len(executed)}
    /\ cpu.pc = "pce_exec" => s_cpu_thread_events_mutex # "CPU"

\* A function that a function on the CPU thread handed over has run.
C30_Witness ==
    \E k \in 1..Len(executed) :
        /\ executed[k].by = "CPU"
        /\ executed[k].id \in finished
        /\ k > 1

(***************************************************************************)
(* Claims about the arena: what a failed commit leaves behind.             *)
(***************************************************************************)
\* C34: a commit that reports failure releases nothing: every page that was
\* reserved or committed before the call still belongs to the region it
\* belonged to, and every address a region was reserved at is still the
\* address of that region, so that the caller's one Munmap of it is still
\* valid.  This holds on every failure path, the refused reprotect of the
\* _UWP build included.
C34_FailedCommitKeepsReservation ==
    [][(lastCall'.op = "MmapCommit" /\ ~lastCall'.ok) =>
          /\ \A p \in Pages :
                 mem[p].st # "free" =>
                     (mem'[p].st # "free" /\ mem'[p].alloc = mem[p].alloc)
          /\ \A b \in Bases : RegionBase(mem, b) => RegionBase(mem', b)]_vars

\* C34, witness: in the _UWP build a commit of an executable mode at the
\* address a region was reserved at has failed after its reprotect was
\* refused (the error code is the one of the VirtualFree that followed), and
\* the region is still there, its pages committed without execute.
C34_Witness ==
    /\ uwp
    /\ lastCall.op = "MmapCommit"
    /\ ~lastCall.ok
    /\ lastCall.mode.x
    /\ lastCall.size > 0
    /\ lastCall.err = ERROR_INVALID_PARAMETER
    /\ RegionBase(mem, lastCall.base)
    /\ \A p \in PagesOf(lastCall.base, lastCall.size) :
           /\ mem[p].st = "committed"
           /\ mem[p].prot = ConvertToWinApi(NoExecute(lastCall.mode))

(***************************************************************************)
(* Claims about the Win32 platform and the way down.                       *)
(***************************************************************************)
\* The message loop takes the oldest message and deals with it.
BodyStep == uipc = "GetMessageW" /\ uipc' # "GetMessageW"

\* The function the host hands to the CPU thread for a message of a window.
Forwarded(message) ==
    CASE message = WM_SIZE -> "Plain"
      [] message = WM_KEYDOWN -> "Key"
      [] message = WM_LBUTTONDOWN -> "Key"
      [] message = WM_CLOSE -> "RequestExit"

\* C33: WndProc calls the host for a resize, key, mouse or close message
\* only when the message is for the window whose handle is stored in m_hwnd,
\* and then it does; a message for another window or for no window, and
\* the message the system sends to a new window before CreatePlatformWindow
\* has stored its handle, make no call of the host; a WM_FUNC message is
\* executed whatever handle it comes with.
C33_ForwardOnlyStoredWindow ==
    [][BodyStep =>
          LET msg == Head(msgq)
              stored == msg.hwnd = m_hwnd /\ msg.hwnd \in windows
          IN  /\ (stored /\ msg.message \in HostMessages) =>
                    /\ s_cpu_thread_events' =
                           Emplace(s_cpu_thread_events, Forwarded(msg.message), FALSE, "UI")
                    /\ funcs' = funcs
              /\ ~(stored /\ msg.message \in HostMessages) =>
                    UNCHANGED hostVars
              /\ uipc' = "created" =>
                    /\ msg.message = WM_FUNC
                    /\ m_hwnd' # windows_made'
                    /\ windows_made' \in windows'
                    /\ UNCHANGED hostVars
              /\ msg.message = WM_FUNC =>
                    \/ uipc' = "created" /\ uifunc' = msg.lParam
                    \/ funcs'[msg.lParam].runs = funcs[msg.lParam].runs + 1]_vars

\* C33, witness: CreatePlatformWindow has made a window and shown it, the
\* system has called WndProc for it, its handle is not stored yet, and the
\* host has been handed nothing.
C33_Witness ==
    /\ uipc = "created"
    /\ m_hwnd = NULL
    /\ windows_made \in windows
    /\ posted = 0
    /\ s_cpu_thread_events = <<>>

\* C32: a function passed to ExecuteInMessageLoop is executed at most once
\* and is freed when it has been executed, and when RunMessageLoop returns
\* every function passed before has been executed.
C32_EveryFunctionRunsOnce ==
    /\ \A f \in 1..Len(funcs) :
           /\ funcs[f].runs \in {0, 1}
           /\ funcs[f].freed <=> funcs[f].runs = 1
    /\ uipc = "returned" => \A f \in 1..Len(funcs) : funcs[f].runs = 1

====
